---- MODULE Spec2Model ----
(***************************************************************************)
(* Verification model of the terraform-ls indexing core:                   *)
(*   - the event bus (internal/eventbus/bus.go): Topic.Subscribe,          *)
(*     Topic.Unsubscribe, Topic.Publish and the feature event loops,       *)
(*   - the record stores (ModuleStore, StacksStore): copy-on-write         *)
(*     transactions over go-memdb, Update<Field> with its deferred         *)
(*     Set<Field>State,                                                    *)
(*   - the job functions that drive a record field Unknown -> Loading ->   *)
(*     Loaded (ParseModuleConfiguration, TerraformValidate, ParseStack),   *)
(*   - ModulesFeature.decodeDeclaredModuleCalls / decodeModuleAtPath,      *)
(*   - the job store and its scheduler goroutines: EnqueueJob,             *)
(*     AwaitNextJob, FinishJob, WaitForJobs,                               *)
(*   - the root modules feature (didOpen, GetTerraformVersion), the        *)
(*     watched-file handler of the modules feature, and                    *)
(*     ModuleStore.ProviderRequirementsForModule.                          *)
(* Each component has its own specification over the shared variables.     *)
(***************************************************************************)
EXTENDS Integers, Sequences, FiniteSets, TLC

VARIABLES
    \* ---- event bus (one Topic[T]) ----
    subscribers,   \* eb.subscribers: sequence of channel ids
    sent,          \* per channel: every event ever enqueued on it, in order
    rcvd,          \* per channel: how many events the receiver has taken
    mutex,         \* eb.mutex: the publisher holding it, or NoProc
    pub,           \* per publisher goroutine: position inside Publish
    nextEvent,     \* number of Publish calls that took the mutex so far; the n-th
                   \* such call publishes the event named n
    unsubscribed,  \* channels Unsubscribe was called with while registered
    feat,          \* per feature: lifecycle of Start/Stop and its channel
    busPanic,      \* the process panicked inside the bus
    \* ---- record stores (go-memdb tables) ----
    table,         \* per store and path: the record in the table, or NoRecord
    heap,          \* the Go maps records point to (ModuleDiagnostics, ...State)
    nextData,      \* number of data values produced so far (data identity)
    errOf,         \* per data value: the error handed to the Update that wrote it
    wk,            \* per worker goroutine: the call or job function it executes
    held,          \* per reader: the record it got from RecordByPath
    prev,          \* the job execution that returned last
    called,        \* the store method that returned last, and what it returned
    \* ---- ModulesFeature.decodeDeclaredModuleCalls and the job store ----
    dec,           \* the locals of the running decodeDeclaredModuleCalls call
    queue,         \* the jobs accepted by JobStore.EnqueueJob, in order
    \* ---- job store / scheduler ----
    sjobs,         \* the jobs table: the scheduled job of every id, in id order
    jobMu,         \* nextJobHighPrioMu / nextJobLowPrioMu: the holder, or NoProc
    dq,            \* per scheduler goroutine: position in AwaitNextJob / the job
    waiter,        \* the caller of WaitForJobs
    ctxDone,       \* the context handed to WaitForJobs is cancelled
    \* ---- feature event loops ----
    vloop,         \* the event-consumption goroutine of VariablesFeature
    \* ---- job functions over one field of a record ----
    root,          \* the RootRecord of one path: its module manifest fields
    psch,          \* the ModuleRecord of one path: its provider schema fields
    ex,            \* per goroutine: the job function it executes
    \* ---- the schema validation diagnostics of one VariableRecord ----
    vmap,          \* the ast.VarsDiags maps: per address, the diagnostics per file
    vrec,          \* the record in the table: its map for the source, its state
    vheld,         \* a reader: the record it got from VariableRecordByPath
    vjob,          \* the running SchemaVariablesValidation
    \* ---- the parsed files of one ModuleRecord ----
    disk,          \* per file of the directory: the version of its content
    pmod,          \* the record in the table: files, parsing diagnostics, state
    pj,            \* per goroutine: the ParseModuleConfiguration it executes
    \* ---- the topics between request handlers and feature loops ----
    tq,            \* per feature and topic: len of the channel Subscribe returned
    tmu,           \* per topic: the goroutine holding its mutex, or NoProc
    tp,            \* per goroutine: its position in Publish or in its event loop
    \* ---- the root modules feature: didOpen and GetTerraformVersion ----
    tfv,           \* the RootRecord of one path: its Terraform version fields
    gv,            \* the running GetTerraformVersion
    rdo,           \* the running RootModulesFeature.didOpen
    rq,            \* the jobs EnqueueJob accepted from didOpen, in order
    \* ---- concurrent writers of one ModuleRecord ----
    refs,          \* the record in the table: reference targets and origins
    wmu,           \* the writer lock of the database: its holder, or NoProc
    rw,            \* per goroutine: the store call it executes
    \* ---- ModulesFeature.didChangeWatched ----
    watch,         \* the file system, the stores and the running handler
    \* ---- ModuleStore.ProviderRequirementsForModule ----
    meta,          \* per module path: the stored record's metadata
    pr             \* the call stack of providerRequirementsForModule

busVars == <<subscribers, sent, rcvd, mutex, pub, nextEvent, unsubscribed, feat, busPanic>>

storeVars == <<table, heap, nextData, errOf, wk, held, prev, called>>

decVars == <<dec, queue>>

schedVars == <<sjobs, jobMu, dq, waiter, ctxDone>>

loopVars == <<vloop>>

execVars == <<root, psch, ex>>

diagVars == <<vmap, vrec, vheld, vjob>>

parseVars == <<disk, pmod, pj>>

topoVars == <<tq, tmu, tp>>

rootModVars == <<tfv, gv, rdo, rq>>

refVars == <<refs, wmu, rw>>

watchVars == <<watch>>

reqVars == <<meta, pr>>

oldVars == <<busVars, storeVars, decVars, schedVars, loopVars, execVars, diagVars, parseVars, topoVars>>

extVars == <<rootModVars, refVars, watchVars, reqVars>>

vars == <<busVars, storeVars, decVars, schedVars, loopVars, execVars, diagVars, parseVars, topoVars, extVars>>

----------------------------------------------------------------------------
(***************************************************************************)
(* Event bus                                                               *)
(***************************************************************************)

ChannelSize == 10

\* Number of Publish calls explored by SpecBus (fan-out, no full buffer).
MaxPublish == 3

\* Number of Publish calls explored by SpecBackpressure: one more than
\* ChannelSize fills a buffer and blocks the next send.
MaxBurst == 11

Publishers == {"p1", "p2"}
Features == {"modules", "stacks"}
NoProc == "none"

Range(s) == {s[i] : i \in DOMAIN s}

Count(e, s) == Cardinality({i \in DOMAIN s : s[i] = e})

\* Position of element e in sequence s, 0 when absent.
IndexOf(e, s) == IF e \in Range(s) THEN CHOOSE i \in DOMAIN s : s[i] = e ELSE 0

\* len(ch): events enqueued and not yet received.
Pending(ch) == Len(sent[ch]) - rcvd[ch]

\* `subscriber <- event` can proceed iff the buffer holds fewer than cap events.
\* ChanFullOffByOne: the test for a buffer one slot smaller.
ChanFullOffByOne(ch) == Pending(ch) >= ChannelSize - 1
ChanFull(ch) == Pending(ch) >= ChannelSize

\* eb.mutex.Lock() can proceed.
\* LockFreeNoMutex: a topic without the mutex.
LockFreeNoMutex(m) == TRUE
LockFree(m) == m = NoProc

\* The filter loop of Unsubscribe.
\* RemoveSubscriberKeepAll: a filter loop that drops nothing.
RemoveSubscriberKeepAll(subs, ch) == subs
RemoveSubscriber(subs, ch) == SelectSeq(subs, LAMBDA s : s # ch)

PubIdle == [pc |-> "idle", ev |-> 0, subs |-> <<>>, i |-> 0, gone |-> {}]

BusInit ==
    /\ subscribers = <<>>
    /\ sent = <<>>
    /\ rcvd = <<>>
    /\ mutex = NoProc
    /\ pub = [p \in Publishers |-> PubIdle]
    /\ nextEvent = 0
    /\ unsubscribed = {}
    /\ feat = [f \in Features |-> [state |-> "new", ch |-> 0]]
    /\ busPanic = FALSE

\* Topic.Subscribe: make(chan T, ChannelSize), append under the mutex.
\* Called by a feature's Start (OnDidOpen / OnDidChange / ...).
FeatureStart(f) ==
    /\ ~busPanic
    /\ feat[f].state = "new"
    /\ LockFree(mutex)
    /\ sent' = Append(sent, <<>>)
    /\ rcvd' = Append(rcvd, 0)
    /\ subscribers' = Append(subscribers, Len(sent) + 1)
    /\ feat' = [feat EXCEPT ![f] = [state |-> "running", ch |-> Len(sent) + 1]]
    /\ UNCHANGED <<mutex, pub, nextEvent, unsubscribed, busPanic>>
    /\ UNCHANGED <<storeVars, decVars, schedVars, loopVars, execVars, diagVars, parseVars, topoVars, extVars>>

\* One iteration of the feature goroutine's select receiving an event.
FeatureLoopRecv(f) ==
    /\ ~busPanic
    /\ feat[f].state \in {"running", "cancelled"}
    /\ Pending(feat[f].ch) > 0
    /\ rcvd' = [rcvd EXCEPT ![feat[f].ch] = @ + 1]
    /\ UNCHANGED <<subscribers, sent, mutex, pub, nextEvent, unsubscribed, feat, busPanic>>
    /\ UNCHANGED <<storeVars, decVars, schedVars, loopVars, execVars, diagVars, parseVars, topoVars, extVars>>

\* Stop: f.stopFunc() cancels the context of the goroutine; nothing else.
FeatureStop(f) ==
    /\ ~busPanic
    /\ feat[f].state = "running"
    /\ feat' = [feat EXCEPT ![f].state = "cancelled"]
    /\ UNCHANGED <<subscribers, sent, rcvd, mutex, pub, nextEvent, unsubscribed, busPanic>>
    /\ UNCHANGED <<storeVars, decVars, schedVars, loopVars, execVars, diagVars, parseVars, topoVars, extVars>>

\* The goroutine's select takes `case <-ctx.Done(): return`.
FeatureLoopExit(f) ==
    /\ ~busPanic
    /\ feat[f].state = "cancelled"
    /\ feat' = [feat EXCEPT ![f].state = "exited"]
    /\ UNCHANGED <<subscribers, sent, rcvd, mutex, pub, nextEvent, unsubscribed, busPanic>>
    /\ UNCHANGED <<storeVars, decVars, schedVars, loopVars, execVars, diagVars, parseVars, topoVars, extVars>>

\* Topic.Unsubscribe(ch) for any channel ever handed out.
\* make(..., 0, len(eb.subscribers)-1) panics on an empty subscriber list.
Unsubscribe(ch) ==
    /\ ~busPanic
    /\ ch \in DOMAIN sent
    /\ LockFree(mutex)
    /\ IF Len(subscribers) = 0
       THEN /\ busPanic' = TRUE
            /\ UNCHANGED <<subscribers, unsubscribed>>
       ELSE /\ subscribers' = RemoveSubscriber(subscribers, ch)
            /\ unsubscribed' = IF ch \in Range(subscribers)
                               THEN unsubscribed \cup {ch} ELSE unsubscribed
            /\ UNCHANGED busPanic
    /\ UNCHANGED <<sent, rcvd, mutex, pub, nextEvent, feat>>
    /\ UNCHANGED <<storeVars, decVars, schedVars, loopVars, execVars, diagVars, parseVars, topoVars, extVars>>

\* A goroutine calls Publish(event).
PublishCall(p, max) ==
    /\ ~busPanic
    /\ pub[p].pc = "idle"
    /\ nextEvent + Cardinality({q \in Publishers : pub[q].pc = "lock"}) < max
    /\ pub' = [pub EXCEPT ![p] = [PubIdle EXCEPT !.pc = "lock", !.gone = unsubscribed]]
    /\ UNCHANGED <<subscribers, sent, rcvd, mutex, nextEvent, unsubscribed, feat, busPanic>>
    /\ UNCHANGED <<storeVars, decVars, schedVars, loopVars, execVars, diagVars, parseVars, topoVars, extVars>>

\* eb.mutex.Lock(); the range expression eb.subscribers is evaluated once.
PublishLock(p) ==
    /\ ~busPanic
    /\ pub[p].pc = "lock"
    /\ LockFree(mutex)
    /\ mutex' = p
    /\ nextEvent' = nextEvent + 1
    /\ pub' = [pub EXCEPT ![p].pc = "send", ![p].ev = nextEvent + 1,
                          ![p].subs = subscribers, ![p].i = 1]
    /\ UNCHANGED <<subscribers, sent, rcvd, unsubscribed, feat, busPanic>>
    /\ UNCHANGED <<storeVars, decVars, schedVars, loopVars, execVars, diagVars, parseVars, topoVars, extVars>>

\* subscriber <- event, for the next subscriber of the range loop.
PublishSend(p) ==
    /\ ~busPanic
    /\ pub[p].pc = "send"
    /\ pub[p].i <= Len(pub[p].subs)
    /\ ~ChanFull(pub[p].subs[pub[p].i])
    /\ sent' = [sent EXCEPT ![pub[p].subs[pub[p].i]] = Append(@, pub[p].ev)]
    /\ pub' = [pub EXCEPT ![p].i = @ + 1]
    /\ UNCHANGED <<subscribers, rcvd, mutex, nextEvent, unsubscribed, feat, busPanic>>
    /\ UNCHANGED <<storeVars, decVars, schedVars, loopVars, execVars, diagVars, parseVars, topoVars, extVars>>

\* End of the loop: the deferred eb.mutex.Unlock() and return.
PublishReturn(p) ==
    /\ ~busPanic
    /\ pub[p].pc = "send"
    /\ pub[p].i > Len(pub[p].subs)
    /\ mutex' = NoProc
    /\ pub' = [pub EXCEPT ![p] = PubIdle]
    /\ UNCHANGED <<subscribers, sent, rcvd, nextEvent, unsubscribed, feat, busPanic>>
    /\ UNCHANGED <<storeVars, decVars, schedVars, loopVars, execVars, diagVars, parseVars, topoVars, extVars>>

PublisherStep(p, max) ==
    \/ PublishCall(p, max)
    \/ PublishLock(p)
    \/ PublishSend(p)
    \/ PublishReturn(p)

----------------------------------------------------------------------------
(***************************************************************************)
(* Record stores: go-memdb tables of immutable record structs.  A write    *)
(* transaction copies the record, changes the copy and inserts it; Commit  *)
(* swaps the table root atomically and then runs the functions registered  *)
(* with txn.Defer, outside the transaction.  Go maps are reference values: *)
(* a record holds the address of its ModuleDiagnostics and                 *)
(* ModuleDiagnosticsState maps.                                            *)
(***************************************************************************)

\* Number of data values (metadata, diagnostics, job executions) explored.
MaxData == 2

Workers == {"w1"}
Readers == {"r1"}
Kinds == {"module", "stacks"}
Paths == {"a", "b"}
Sources == {"HCLParsing", "TerraformValidate"}

ZeroD == [s \in Sources |-> 0]
ZeroS == [s \in Sources |-> "Unknown"]
FreeCell == [used |-> FALSE, d |-> ZeroD, s |-> ZeroS]
EmptyMap == [used |-> TRUE, d |-> ZeroD, s |-> ZeroS]
Addrs == 1..(2 * (Cardinality(Kinds \X Paths) + Cardinality(Readers) + 1))

\* make(map...): a fresh address.
Alloc(hp) == CHOOSE a \in Addrs : ~hp[a].used /\ \A b \in Addrs : ~hp[b].used => a <= b

NoRecord == [ok |-> FALSE, Meta |-> 0, MetaErr |-> "nil", MetaState |-> "Unknown",
             Files |-> 0, ParsingErr |-> "nil", Diags |-> 0, DiagState |-> 0]
ZeroRecord == [NoRecord EXCEPT !.ok = TRUE]

\* A mutant of NewRecord: the record starts as if its metadata were in progress.
NewRecordLoading(k, hp) == [rec |-> [ZeroRecord EXCEPT !.MetaState = "Loading"], hp |-> hp]

\* newModule / newStacks.
NewRecord(k, hp) ==
    IF k = "module"
    THEN LET a == Alloc(hp)
         IN [rec |-> [ZeroRecord EXCEPT !.DiagState = a], hp |-> [hp EXCEPT ![a] = EmptyMap]]
    ELSE [rec |-> ZeroRecord, hp |-> hp]

\* The ModuleDiagnostics part of ModuleRecord.Copy: a nil map stays nil,
\* otherwise a new map with every entry copied.
\* CopyDiagsShared: a shallow copy, the map shared with the original.
CopyDiagsShared(addr, hp) == [addr |-> addr, hp |-> hp]
CopyDiags(addr, hp) ==
    IF addr = 0 THEN [addr |-> 0, hp |-> hp]
    ELSE LET a == Alloc(hp) IN [addr |-> a, hp |-> [hp EXCEPT ![a] = hp[addr]]]

\* DiagnosticSourceState.Copy: always a new map.
CopyDiagState(addr, hp) ==
    LET a == Alloc(hp)
    IN [addr |-> a, hp |-> [hp EXCEPT ![a] = IF addr = 0 THEN EmptyMap ELSE hp[addr]]]

\* ModuleRecord.Copy copies every field; StacksRecord.Copy keeps only the
\* path and StacksDiagnosticsState.
Copy(k, rec, hp) ==
    LET s == CopyDiagState(rec.DiagState, hp)
        d == CopyDiags(rec.Diags, s.hp)
    IN  IF k = "module"
        THEN [rec |-> [rec EXCEPT !.Diags = d.addr, !.DiagState = s.addr], hp |-> d.hp]
        ELSE [rec |-> [ZeroRecord EXCEPT !.DiagState = s.addr], hp |-> s.hp]

\* What a holder of the record reads through it.
View(rec, hp) ==
    [ok |-> rec.ok, Meta |-> rec.Meta, MetaErr |-> rec.MetaErr, MetaState |-> rec.MetaState,
     Files |-> rec.Files, ParsingErr |-> rec.ParsingErr,
     Diags |-> IF rec.Diags = 0 THEN ZeroD ELSE hp[rec.Diags].d,
     DiagState |-> IF rec.DiagState = 0 THEN ZeroS ELSE hp[rec.DiagState].s]

\* The transaction returns err without Commit: txn.Abort() drops its writes.
Fail(S, e) == [tb |-> S.tb, hp |-> S.hp, err |-> e]

\* txn.Insert of the changed copy.
Insert(S, k, path, rec, hp) == [tb |-> [S.tb EXCEPT ![k][path] = rec], hp |-> hp, err |-> "nil"]

\* A mutant of AddTxn: the new record replaces the one that is there.
AddTxnOverwrite(S, k, path) ==
    LET n == NewRecord(k, S.hp) IN Insert(S, k, path, n.rec, n.hp)

\* Add / add.
AddTxn(S, k, path) ==
    IF S.tb[k][path].ok THEN Fail(S, "AlreadyExists")
    ELSE LET n == NewRecord(k, S.hp) IN Insert(S, k, path, n.rec, n.hp)

\* A mutant of AddIfNotExistsTxn: a record that is there is replaced by a new one.
AddIfNotExistsTxnReset(S, k, path) ==
    LET n == NewRecord(k, S.hp) IN Insert(S, k, path, n.rec, n.hp)

\* AddIfNotExists: add when the lookup fails with RecordNotFound, return nil
\* without a write when there is a record.
AddIfNotExistsTxn(S, k, path) ==
    IF S.tb[k][path].ok THEN Fail(S, "nil") ELSE AddTxn(S, k, path)

\* A mutant of RemoveTxn: a missing record is an error.
RemoveTxnNotFound(S, k, path) ==
    IF ~S.tb[k][path].ok THEN Fail(S, "NotFound")
    ELSE [tb |-> [S.tb EXCEPT ![k][path] = NoRecord], hp |-> S.hp, err |-> "nil"]

\* Remove: DeleteAll of the path; nothing to do when there is no record.
RemoveTxn(S, k, path) ==
    IF ~S.tb[k][path].ok THEN Fail(S, "nil")
    ELSE [tb |-> [S.tb EXCEPT ![k][path] = NoRecord], hp |-> S.hp, err |-> "nil"]

\* A mutant of SetMetaStateTxn: a missing record is created on the way.
SetMetaStateTxnUpsert(S, k, path, st) ==
    LET c == IF S.tb[k][path].ok THEN Copy(k, S.tb[k][path], S.hp) ELSE NewRecord(k, S.hp)
    IN Insert(S, k, path, [c.rec EXCEPT !.MetaState = st], c.hp)

\* SetMetaState.
SetMetaStateTxn(S, k, path, st) ==
    IF ~S.tb[k][path].ok THEN Fail(S, "NotFound")
    ELSE LET c == Copy(k, S.tb[k][path], S.hp)
         IN Insert(S, k, path, [c.rec EXCEPT !.MetaState = st], c.hp)

\* The assignments of UpdateMetadata to the copy.
\* WithMetaNoErr: the metadata written without its error.
WithMetaNoErr(rec, d, e) == [rec EXCEPT !.Meta = d]
WithMeta(rec, d, e) == [rec EXCEPT !.Meta = d, !.MetaErr = e]

\* UpdateMetadata up to txn.Commit().
UpdateMetadataTxn(S, k, path, d, e) ==
    IF ~S.tb[k][path].ok THEN Fail(S, "NotFound")
    ELSE LET c == Copy(k, S.tb[k][path], S.hp)
         IN Insert(S, k, path, WithMeta(c.rec, d, e), c.hp)

\* SetModuleDiagnosticsState / SetStacksDiagnosticsState.
SetDiagnosticsStateTxn(S, k, path, src, st) ==
    IF ~S.tb[k][path].ok THEN Fail(S, "NotFound")
    ELSE LET c == Copy(k, S.tb[k][path], S.hp)
         IN Insert(S, k, path, c.rec, [c.hp EXCEPT ![c.rec.DiagState].s[src] = st])

\* UpdateModuleDiagnostics / UpdateStacksDiagnostics up to txn.Commit().
UpdateDiagnosticsTxn(S, k, path, src, d) ==
    IF ~S.tb[k][path].ok THEN Fail(S, "NotFound")
    ELSE LET c == Copy(k, S.tb[k][path], S.hp)
             a == IF c.rec.Diags = 0 THEN Alloc(c.hp) ELSE c.rec.Diags
             hp1 == IF c.rec.Diags = 0 THEN [c.hp EXCEPT ![a] = EmptyMap] ELSE c.hp
         IN Insert(S, k, path, [c.rec EXCEPT !.Diags = a], [hp1 EXCEPT ![a].d[src] = d])

\* UpdateParsedModuleFiles / UpdateParsedStacksFiles.
UpdateParsedFilesTxn(S, k, path, f, e) ==
    IF ~S.tb[k][path].ok THEN Fail(S, "NotFound")
    ELSE LET c == Copy(k, S.tb[k][path], S.hp)
         IN Insert(S, k, path, [c.rec EXCEPT !.Files = f, !.ParsingErr = e], c.hp)

\* No function registered with txn.Defer is waiting to run.
NoDefer == [field |-> "none", kind |-> "module", path |-> "a", src |-> "HCLParsing",
            data |-> 0, pre |-> "Unknown"]

\* A goroutine that is in no store call and no job function.
WkIdle == [pc |-> "idle", fn |-> "none", kind |-> "module", path |-> "a",
           src |-> "HCLParsing", ign |-> FALSE, data |-> 0, ret |-> "none",
           setLoading |-> FALSE, wrote |-> 0, defer |-> NoDefer]

\* No store method has returned yet.
NoCall == [op |-> "none", kind |-> "module", path |-> "a", err |-> "nil"]

\* The method op of the store k, called for path, has returned err.
Call(op, k, path, err) == [op |-> op, kind |-> k, path |-> path, err |-> err]

NoHeld == [has |-> FALSE, rec |-> NoRecord, view |-> View(NoRecord, <<>>), during |-> {}]

\* Addresses reachable from the table and from the records readers hold.
LiveAddrs(tb, h) ==
    LET recs == {tb[k][q] : k \in Kinds, q \in Paths} \cup {h[r].rec : r \in Readers}
    IN  ({rec.Diags : rec \in recs} \cup {rec.DiagState : rec \in recs}) \ {0}

\* The garbage collector frees what nothing refers to.
Collect(hp, live) == [a \in Addrs |-> IF a \in live THEN hp[a] ELSE FreeCell]

Store == [tb |-> table, hp |-> heap]

\* txn.Commit(): the new table root becomes visible in one step.
Commit(R) ==
    /\ table' = R.tb
    /\ heap' = Collect(R.hp, LiveAddrs(R.tb, held'))

StoreEmpty ==
    /\ table = [k \in Kinds |-> [q \in Paths |-> NoRecord]]
    /\ heap = [a \in Addrs |-> FreeCell]
    /\ nextData = 0
    /\ errOf = <<>>
    /\ wk = [w \in Workers |-> WkIdle]
    /\ held = [r \in Readers |-> NoHeld]
    /\ prev = WkIdle
    /\ called = NoCall

CanCall(w) == wk[w].pc = "idle" /\ wk[w].defer.field = "none"

\* The function registered with txn.Defer runs after Commit, in a
\* transaction of its own; its error is dropped.  The Update call, and the
\* job function whose last statement it is, return after it.
RunDeferred(w) ==
    /\ wk[w].defer.field # "none"
    /\ LET df == wk[w].defer
           R == IF df.field = "Meta"
                THEN SetMetaStateTxn(Store, df.kind, df.path, "Loaded")
                ELSE SetDiagnosticsStateTxn(Store, df.kind, df.path, df.src, "Loaded")
       IN  /\ wk' = [wk EXCEPT ![w].defer = NoDefer,
                               ![w].pc = IF @ = "deferred" THEN "done" ELSE @]
           /\ UNCHANGED <<held, nextData, errOf, prev, called>>
           /\ Commit(R)
    /\ UNCHANGED <<busVars, decVars, schedVars, loopVars, execVars, diagVars, parseVars, topoVars, extVars>>

\* A caller of the store API: Add.
ApiAdd(w, k, path) ==
    /\ CanCall(w)
    /\ UNCHANGED <<wk, held, nextData, errOf, prev, called>>
    /\ Commit(AddTxn(Store, k, path))
    /\ UNCHANGED <<busVars, decVars, schedVars, loopVars, execVars, diagVars, parseVars, topoVars, extVars>>

\* What a store method other than Update<Field> does in its transaction; the
\* err of a lookup is the value it returns.
TxnOf(op, S, k, path) ==
    CASE op = "Add" -> AddTxn(S, k, path)
      [] op = "AddIfNotExists" -> AddIfNotExistsTxn(S, k, path)
      [] op = "Remove" -> RemoveTxn(S, k, path)
      [] op = "SetMetaState" -> SetMetaStateTxn(S, k, path, "Loading")
      [] op = "RecordByPath" -> Fail(S, IF S.tb[k][path].ok THEN "nil" ELSE "NotFound")

StoreMethods == {"Add", "AddIfNotExists", "Remove", "SetMetaState", "RecordByPath"}

\* A caller of the store API that looks at what the method returns.
StoreCall(w, op, k, path) ==
    /\ CanCall(w)
    /\ UNCHANGED <<wk, held, nextData, errOf, prev>>
    /\ LET R == TxnOf(op, Store, k, path)
       IN  /\ called' = Call(op, k, path, R.err)
           /\ Commit(R)
    /\ UNCHANGED <<busVars, decVars, schedVars, loopVars, execVars, diagVars, parseVars, topoVars, extVars>>

\* SetMetaState(path, OpStateLoading), as the job functions call it.
ApiSetMetaState(w, k, path) ==
    /\ CanCall(w)
    /\ UNCHANGED <<wk, held, nextData, errOf, prev, called>>
    /\ Commit(SetMetaStateTxn(Store, k, path, "Loading"))
    /\ UNCHANGED <<busVars, decVars, schedVars, loopVars, execVars, diagVars, parseVars, topoVars, extVars>>

\* UpdateMetadata(path, meta, mErr): the transaction; the deferred
\* SetMetaState(path, OpStateLoaded) is left to RunDeferred.
ApiUpdateMetadata(w, k, path, e) ==
    /\ CanCall(w)
    /\ nextData < MaxData
    /\ LET R == UpdateMetadataTxn(Store, k, path, nextData + 1, e)
       IN  /\ nextData' = nextData + 1
           /\ errOf' = Append(errOf, e)
           /\ wk' = [wk EXCEPT ![w].defer =
                        IF R.err = "nil"
                        THEN [NoDefer EXCEPT !.field = "Meta", !.kind = k, !.path = path,
                                             !.data = nextData + 1,
                                             !.pre = table[k][path].MetaState]
                        ELSE NoDefer]
           /\ called' = Call("UpdateMetadata", k, path, R.err)
           /\ UNCHANGED <<held, prev>>
           /\ Commit(R)
    /\ UNCHANGED <<busVars, decVars, schedVars, loopVars, execVars, diagVars, parseVars, topoVars, extVars>>

\* SetModuleDiagnosticsState(path, source, OpStateLoading).
ApiSetDiagnosticsState(w, k, path, src) ==
    /\ CanCall(w)
    /\ UNCHANGED <<wk, held, nextData, errOf, prev, called>>
    /\ Commit(SetDiagnosticsStateTxn(Store, k, path, src, "Loading"))
    /\ UNCHANGED <<busVars, decVars, schedVars, loopVars, execVars, diagVars, parseVars, topoVars, extVars>>

\* UpdateModuleDiagnostics(path, source, diags): the transaction.
ApiUpdateDiagnostics(w, k, path, src) ==
    /\ CanCall(w)
    /\ nextData < MaxData
    /\ LET R == UpdateDiagnosticsTxn(Store, k, path, src, nextData + 1)
       IN  /\ nextData' = nextData + 1
           /\ errOf' = Append(errOf, "nil")
           /\ wk' = [wk EXCEPT ![w].defer =
                        IF R.err = "nil"
                        THEN [NoDefer EXCEPT !.field = "Diag", !.kind = k, !.path = path,
                                             !.src = src, !.data = nextData + 1]
                        ELSE NoDefer]
           /\ called' = Call("UpdateDiagnostics", k, path, R.err)
           /\ UNCHANGED <<held, prev>>
           /\ Commit(R)
    /\ UNCHANGED <<busVars, decVars, schedVars, loopVars, execVars, diagVars, parseVars, topoVars, extVars>>

\* Updates of the metadata whose deferred Loaded transition is still to run.
PendingMeta(k, path) ==
    {[data |-> wk[w].defer.data, pre |-> wk[w].defer.pre] :
        w \in {x \in Workers : /\ wk[x].defer.field = "Meta"
                               /\ wk[x].defer.kind = k
                               /\ wk[x].defer.path = path}}

\* ModuleByPath / RecordByPath: a read transaction returning the stored
\* record itself.
ReaderGet(r, k, path) ==
    /\ table[k][path].ok
    /\ held' = [held EXCEPT ![r] = [has |-> TRUE, rec |-> table[k][path],
                                    view |-> View(table[k][path], heap),
                                    during |-> PendingMeta(k, path)]]
    /\ UNCHANGED <<wk, nextData, errOf, prev, called>>
    /\ Commit(Fail(Store, "nil"))
    /\ UNCHANGED <<busVars, decVars, schedVars, loopVars, execVars, diagVars, parseVars, topoVars, extVars>>

\* The reader lets go of the record.
ReaderDrop(r) ==
    /\ held[r].has
    /\ held' = [held EXCEPT ![r] = NoHeld]
    /\ UNCHANGED <<wk, nextData, errOf, prev, called>>
    /\ Commit(Fail(Store, "nil"))
    /\ UNCHANGED <<busVars, decVars, schedVars, loopVars, execVars, diagVars, parseVars, topoVars, extVars>>

----------------------------------------------------------------------------
(***************************************************************************)
(* Job functions.  Every store call of a job function is a transaction of  *)
(* its own, so each is one step of the goroutine that runs the job.        *)
(***************************************************************************)

JobFns == {"ParseModuleConfiguration", "TerraformValidate", "ParseStack"}

\* ParseVariables is ParseModuleConfiguration over the VariableStore.
ParseJobs == {"ParseModuleConfiguration", "ParseStack"}

KindOf(fn) == IF fn = "ParseStack" THEN "stacks" ELSE "module"

SourceOf(fn) == IF fn = "TerraformValidate" THEN "TerraformValidate" ELSE "HCLParsing"

\* mod.ModuleDiagnosticsState[source] of the stored record.
StateOf(k, path, src) == View(table[k][path], heap).DiagState[src]

\* "Avoid parsing if it is already in progress or already known".
\* StateSkipLoadedOnly: a check that skips finished work only.
StateSkipLoadedOnly(st, ign) == st = "Loaded" /\ ~ign
StateSkip(st, ign) == st # "Unknown" /\ ~ign

\* The return statement of a job function.
Returned(j, e) == [j EXCEPT !.pc = "done", !.ret = e]

\* RecordByPath and the state check at the head of the job function.
\* chg: the request is a didChange of this language.
JobStart(w, fn, path, ign, chg) ==
    /\ CanCall(w)
    /\ nextData < MaxData
    /\ LET k == KindOf(fn)
           st == StateOf(k, path, SourceOf(fn))
           j == [WkIdle EXCEPT !.fn = fn, !.kind = k, !.path = path, !.src = SourceOf(fn),
                               !.ign = ign, !.data = nextData + 1]
       IN  wk' = [wk EXCEPT ![w] =
                    IF ~table[k][path].ok THEN Returned(j, "NotFound")
                    ELSE IF StateSkip(st, ign) THEN Returned(j, "StateNotChanged")
                    ELSE IF fn = "ParseStack" /\ st = "Loaded" /\ chg
                         THEN [j EXCEPT !.pc = "updateFiles", !.data = 0]
                    ELSE [j EXCEPT !.pc = "setLoading"]]
    /\ nextData' = nextData + 1
    /\ errOf' = Append(errOf, "nil")
    /\ UNCHANGED <<held, prev, called>>
    /\ Commit(Fail(Store, "nil"))
    /\ UNCHANGED <<busVars, decVars, schedVars, loopVars, execVars, diagVars, parseVars, topoVars, extVars>>

\* Set...DiagnosticsState(path, source, OpStateLoading).
JobSetLoading(w) ==
    /\ wk[w].pc = "setLoading"
    /\ UNCHANGED <<held, nextData, errOf, prev, called>>
    /\ LET j == wk[w]
           R == SetDiagnosticsStateTxn(Store, j.kind, j.path, j.src, "Loading")
       IN  /\ wk' = [wk EXCEPT ![w] =
                        IF R.err # "nil" THEN Returned(j, R.err)
                        ELSE [j EXCEPT !.pc = "work", !.setLoading = TRUE, !.wrote = @ + 1]]
           /\ Commit(R)
    /\ UNCHANGED <<busVars, decVars, schedVars, loopVars, execVars, diagVars, parseVars, topoVars, extVars>>

\* The parser, or TerraformExecutorForModule and tfExec.Validate, with
\* outcome e; the job function returns the error at once.
JobWork(w, e) ==
    /\ wk[w].pc = "work"
    /\ LET j == wk[w]
       IN  wk' = [wk EXCEPT ![w] =
                    IF e # "nil" THEN Returned(j, e)
                    ELSE [j EXCEPT !.pc = IF j.fn = "TerraformValidate"
                                          THEN "updateDiags" ELSE "updateFiles"]]
    /\ UNCHANGED <<held, nextData, errOf, prev, called>>
    /\ Commit(Fail(Store, "nil"))
    /\ UNCHANGED <<busVars, decVars, schedVars, loopVars, execVars, diagVars, parseVars, topoVars, extVars>>

\* UpdateParsed...Files(path, files, err); ParseStack returns after it.
JobUpdateFiles(w) ==
    /\ wk[w].pc = "updateFiles"
    /\ UNCHANGED <<held, nextData, errOf, prev, called>>
    /\ LET j == wk[w]
           R == UpdateParsedFilesTxn(Store, j.kind, j.path, j.data, "nil")
       IN  /\ wk' = [wk EXCEPT ![w] =
                        IF R.err # "nil" THEN Returned(j, R.err)
                        ELSE IF j.fn = "ParseStack"
                             THEN Returned([j EXCEPT !.wrote = @ + 1], "nil")
                        ELSE [j EXCEPT !.pc = "updateDiags", !.wrote = @ + 1]]
           /\ Commit(R)
    /\ UNCHANGED <<busVars, decVars, schedVars, loopVars, execVars, diagVars, parseVars, topoVars, extVars>>

\* UpdateModuleDiagnostics(path, source, diags): the transaction; its
\* deferred Set...DiagnosticsState(Loaded) is left to RunDeferred.
JobUpdateDiags(w) ==
    /\ wk[w].pc = "updateDiags"
    /\ UNCHANGED <<held, nextData, errOf, prev, called>>
    /\ LET j == wk[w]
           R == UpdateDiagnosticsTxn(Store, j.kind, j.path, j.src, j.data)
       IN  /\ wk' = [wk EXCEPT ![w] =
                        IF R.err # "nil" THEN Returned(j, R.err)
                        ELSE [j EXCEPT !.pc = "deferred", !.ret = "nil", !.wrote = @ + 1,
                                       !.defer = [NoDefer EXCEPT !.field = "Diag",
                                                     !.kind = j.kind, !.path = j.path,
                                                     !.src = j.src, !.data = j.data]]]
           /\ Commit(R)
    /\ UNCHANGED <<busVars, decVars, schedVars, loopVars, execVars, diagVars, parseVars, topoVars, extVars>>

\* The job function has returned; the goroutine is free for the next job.
JobReturn(w) ==
    /\ wk[w].pc = "done"
    /\ prev' = wk[w]
    /\ wk' = [wk EXCEPT ![w] = WkIdle]
    /\ UNCHANGED <<held, nextData, errOf, called>>
    /\ Commit(Fail(Store, "nil"))
    /\ UNCHANGED <<busVars, decVars, schedVars, loopVars, execVars, diagVars, parseVars, topoVars, extVars>>

----------------------------------------------------------------------------
(***************************************************************************)
(* ModulesFeature.decodeDeclaredModuleCalls, decodeModuleAtPath and        *)
(* collectReferences.  An error is the pair <<directory, failed step>>; a  *)
(* *multierror.Error is the sequence of the errors it wraps, nil when      *)
(* empty.  A job id is a positive number, the empty id "" is 0.            *)
(***************************************************************************)

\* Number of module calls declared by the parent module.
MaxCalls == 2

\* The source address of a module call that is not a local directory.
Registry == "registry"

CallTargets == Paths \cup {Registry}

\* The DAG of one module directory, in the order it is enqueued.
JobTypes == <<"ParseModuleConfiguration", "LoadModuleMetadata", "PreloadEmbeddedSchema",
              "DecodeReferenceTargets", "DecodeReferenceOrigins">>

\* The declared module calls in the order the range loop visits them.
DeclaredCalls ==
    {d \in UNION {[1..n -> CallTargets] : n \in 0..MaxCalls} :
        \A x, y \in DOMAIN d : d[x] = d[y] => x = y}

\* What os.Stat finds at a path.
FsKinds == {"dir", "file", "missing"}

NilErr == <<"nil", "nil">>

\* multierror.Append(errs, err): a nil error adds nothing.
MultiAppend(errs, e) == IF e = NilErr THEN errs ELSE Append(errs, e)

\* errs.ErrorOrNil().
ErrorOrNil(errs) == errs

\* The `continue` statement of the range loop.
\* AbortBatch: a `break` in its place.
AbortBatch(i, n) == n + 1
Continue(i, n) == i + 1

DecIdle == [pc |-> "idle", declared |-> <<>>, fs |-> [p \in Paths |-> "dir"],
            ignoreState |-> FALSE, i |-> 0, mcIgnoreState |-> FALSE,
            errs |-> <<>>, jobIds |-> <<>>,
            step |-> 0, parseId |-> 0, metaId |-> 0, refCollectionDeps |-> <<>>,
            mcJobIds |-> <<>>, ids |-> <<>>, refErrs |-> <<>>,
            failed |-> {}, returned |-> FALSE, ret |-> <<>>]

DecInit ==
    /\ dec = DecIdle
    /\ queue = <<>>

\* JobStore.EnqueueJob: the job gets the next id and joins the queue.
NewJob(q, dir, type, dependsOn, ign) ==
    [id |-> Len(q) + 1, dir |-> dir, type |-> type, dependsOn |-> dependsOn, ign |-> ign]

\* The call and f.store.DeclaredModuleCalls(dir.Path()); ok: the parent
\* record exists.
DecodeCall(d, fs, ign, ok) ==
    /\ dec.pc = "idle"
    /\ dec' = IF ok
              THEN [DecIdle EXCEPT !.pc = "loop", !.declared = d, !.fs = fs,
                                   !.ignoreState = ign, !.i = 1]
              ELSE [DecIdle EXCEPT !.pc = "done", !.returned = TRUE,
                                   !.ret = << <<"parent", "NotFound">> >>]
    /\ UNCHANGED <<queue, wk, held, nextData, errOf, prev, called>>
    /\ Commit(Fail(Store, "nil"))
    /\ UNCHANGED <<busVars, schedVars, loopVars, execVars, diagVars, parseVars, topoVars, extVars>>

\* The head of one iteration: the source address and os.Stat(mcPath).
\* The result of multierror.Append(errs, err) is not assigned: errs stays.
DecodeStat ==
    /\ dec.pc = "loop"
    /\ dec.i <= Len(dec.declared)
    /\ LET mc == dec.declared[dec.i]
           n == Len(dec.declared)
       IN  dec' = IF mc = Registry
                  THEN [dec EXCEPT !.i = Continue(dec.i, n)]
                  ELSE IF dec.fs[mc] # "dir"
                       THEN [dec EXCEPT !.i = Continue(dec.i, n),
                                        !.failed = @ \cup {<<mc, "Stat">>}]
                  ELSE [dec EXCEPT !.pc = "add"]
    /\ UNCHANGED <<queue, wk, held, nextData, errOf, prev, called>>
    /\ Commit(Fail(Store, "nil"))
    /\ UNCHANGED <<busVars, schedVars, loopVars, execVars, diagVars, parseVars, topoVars, extVars>>

\* mcIgnoreState := ignoreState, set to false when Add reports that the
\* record is already there.
\* McIgnoreStateKeep: the caller's value whatever Add returned.
McIgnoreStateKeep(ignoreState, e) == ignoreState
McIgnoreState(ignoreState, e) == IF e = "AlreadyExists" THEN FALSE ELSE ignoreState

\* f.store.Add(mcPath); addFail: the transaction fails with an error other
\* than AlreadyExists.
DecodeAdd(addFail) ==
    /\ dec.pc = "add"
    /\ UNCHANGED <<queue, wk, held, nextData, errOf, prev, called>>
    /\ LET mc == dec.declared[dec.i]
           n == Len(dec.declared)
           R == AddTxn(Store, "module", mc)
           e == IF addFail THEN "AddErr" ELSE R.err
           child == [dec EXCEPT !.pc = "enqueue", !.step = 1, !.parseId = 0, !.metaId = 0,
                                !.refCollectionDeps = <<>>, !.mcJobIds = <<>>,
                                !.ids = <<>>, !.refErrs = <<>>]
       IN  /\ dec' = IF e \notin {"nil", "AlreadyExists"}
                     THEN [dec EXCEPT !.pc = "loop", !.i = Continue(dec.i, n),
                                      !.failed = @ \cup {<<mc, "Add">>}]
                     ELSE [child EXCEPT !.mcIgnoreState = McIgnoreState(dec.ignoreState, e)]
           /\ Commit(IF e = "nil" THEN R ELSE Fail(Store, e))
    /\ UNCHANGED <<busVars, schedVars, loopVars, execVars, diagVars, parseVars, topoVars, extVars>>

\* decodeModuleAtPath returns to the loop: jobIds = append(jobIds,
\* mcJobIds...), and multierror.Append(errs, mcErr) is not assigned.
ChildReturn(d) ==
    [d EXCEPT !.pc = "loop", !.i = d.i + 1, !.jobIds = d.jobIds \o d.mcJobIds]

\* One f.jobStore.EnqueueJob call of decodeModuleAtPath / collectReferences
\* for the job type at dec.step; fail: EnqueueJob returns an error.
DecodeEnqueue(fail) ==
    /\ dec.pc = "enqueue"
    /\ LET mc == dec.declared[dec.i]
           type == JobTypes[dec.step]
           dependsOn == CASE dec.step = 1 -> {}
                          [] dec.step = 2 -> {dec.parseId}
                          [] dec.step = 3 -> {dec.metaId}
                          [] OTHER -> Range(dec.refCollectionDeps)
           job == NewJob(queue, mc, type, dependsOn, dec.mcIgnoreState)
           err == <<mc, type>>
           d0 == [dec EXCEPT !.failed = IF fail THEN @ \cup {err} ELSE @,
                             !.step = @ + 1]
           \* inside decodeModuleAtPath the result of multierror.Append is
           \* not assigned; collectReferences assigns it
           d1 == CASE dec.step = 1 ->
                        IF fail THEN ChildReturn(d0)
                        ELSE [d0 EXCEPT !.parseId = job.id,
                                        !.mcJobIds = Append(@, job.id),
                                        !.refCollectionDeps = Append(@, job.id)]
                   [] dec.step = 2 ->
                        IF fail THEN [d0 EXCEPT !.metaId = 0]
                        ELSE [d0 EXCEPT !.metaId = job.id,
                                        !.mcJobIds = Append(@, job.id),
                                        !.refCollectionDeps = Append(@, job.id)]
                   [] dec.step = 3 ->
                        IF fail THEN d0
                        ELSE [d0 EXCEPT !.mcJobIds = Append(@, job.id),
                                        !.refCollectionDeps = Append(@, job.id)]
                   [] dec.step = 4 ->
                        IF fail THEN [d0 EXCEPT !.refErrs = MultiAppend(@, err)]
                        ELSE [d0 EXCEPT !.ids = Append(@, job.id)]
                   [] OTHER ->
                        LET refErrs == IF fail THEN MultiAppend(dec.refErrs, err)
                                       ELSE dec.refErrs
                            ids == IF fail THEN dec.ids ELSE Append(dec.ids, job.id)
                        IN  ChildReturn([d0 EXCEPT !.refErrs = refErrs, !.ids = ids,
                                            !.mcJobIds = IF ErrorOrNil(refErrs) # <<>>
                                                         THEN @ ELSE @ \o ids])
       IN  /\ dec' = d1
           /\ queue' = IF fail THEN queue ELSE Append(queue, job)
    /\ UNCHANGED <<wk, held, nextData, errOf, prev, called>>
    /\ Commit(Fail(Store, "nil"))
    /\ UNCHANGED <<busVars, schedVars, loopVars, execVars, diagVars, parseVars, topoVars, extVars>>

\* return jobIds, errs.ErrorOrNil()
DecodeReturn ==
    /\ dec.pc = "loop"
    /\ dec.i > Len(dec.declared)
    /\ dec' = [dec EXCEPT !.pc = "done", !.returned = TRUE, !.ret = ErrorOrNil(dec.errs)]
    /\ UNCHANGED <<queue, wk, held, nextData, errOf, prev, called>>
    /\ Commit(Fail(Store, "nil"))
    /\ UNCHANGED <<busVars, schedVars, loopVars, execVars, diagVars, parseVars, topoVars, extVars>>

\* The job types enqueued for a directory.
Enqueued(p) == {queue[x].type : x \in {y \in DOMAIN queue : queue[y].dir = p}}

\* The job types decodeModuleAtPath enqueues for p when the EnqueueJob calls
\* recorded in dec.failed are the ones that fail: nothing follows a parse job
\* that could not be enqueued.
Expected(p) ==
    IF <<p, JobTypes[1]>> \in dec.failed THEN {}
    ELSE {t \in Range(JobTypes) : <<p, t>> \notin dec.failed}

----------------------------------------------------------------------------
(***************************************************************************)
(* Job store / scheduler                                                   *)
(*                                                                         *)
(* The jobs table and the two dequeue mutexes are declared in              *)
(* internal/state/state.go; the methods of JobStore (EnqueueJob,           *)
(* AwaitNextJob, FinishJob, WaitForJobs) are modelled from the design      *)
(* document, section 4.3.                                                  *)
(***************************************************************************)

\* The largest number of jobs enqueued in one behaviour.
MaxJobs == 3

\* job.HighPriority and job.LowPriority: one mutex and one stream each.
Priorities == {"High", "Low"}

\* The scheduler goroutines that call AwaitNextJob, and the priority each asks for.
Dequeuers == {"h1", "h2", "l1"}

PriorityOf(d) == IF d = "l1" THEN "Low" ELSE "High"

\* A dequeuer that executes no job and is not inside AwaitNextJob.
DqIdle == [pc |-> "idle", job |-> 0]

\* The caller of WaitForJobs before the call.
WaitIdle == [pc |-> "idle", ids |-> {}, ret |-> "none"]

\* NewStateStore: an empty jobs table, both mutexes free.
SchedInit ==
    /\ sjobs = << >>
    /\ jobMu = [p \in Priorities |-> NoProc]
    /\ dq = [d \in Dequeuers |-> DqIdle]
    /\ waiter = WaitIdle
    /\ ctxDone = FALSE

\* The row EnqueueJob inserts: state Queued, no error, never handed out.
ScheduledJob(priority, dependsOn) ==
    [priority |-> priority, dependsOn |-> dependsOn, state |-> "Queued",
     jobErr |-> FALSE, handed |-> 0, type |-> "none"]

\* A mutant of DepsDone: dependencies are not looked at.
DepsDoneIgnored(j, js) == TRUE

\* A mutant of DepsDone: a dependency that ended with an error never counts.
DepsDoneNoErr(j, js) ==
    \A x \in j.dependsOn : js[x].state = "Done" /\ ~js[x].jobErr

\* Every job the job j depends on is Done, with or without an error.
DepsDone(j, js) == \A x \in j.dependsOn : js[x].state = "Done"

\* The Queued jobs of one priority that may be dequeued.
Eligible(js, p) ==
    {i \in DOMAIN js :
        /\ js[i].state = "Queued"
        /\ js[i].priority = p
        /\ DepsDone(js[i], js)}

\* First in, first out within one priority.
FirstJob(S) == CHOOSE i \in S : \A k \in S : i <= k

\* A mutant of MuFree: AwaitNextJob does not take the mutex of its priority.
MuFreeNoMutex(mu, p) == TRUE

\* nextJobHighPrioMu / nextJobLowPrioMu is not held.
MuFree(mu, p) == mu[p] = NoProc

\* EnqueueJob: a new job that depends on jobs enqueued before it.
EnqueueJob(priority, dependsOn) ==
    /\ Len(sjobs) < MaxJobs
    /\ dependsOn \subseteq DOMAIN sjobs
    /\ sjobs' = Append(sjobs, ScheduledJob(priority, dependsOn))
    /\ UNCHANGED <<jobMu, dq, waiter, ctxDone>>
    /\ UNCHANGED <<busVars, storeVars, decVars, loopVars, execVars, diagVars, parseVars, topoVars, extVars>>

\* AwaitNextJob, first step: take the mutex of the asked priority.
AwaitLock(d) ==
    /\ dq[d].pc = "idle"
    /\ MuFree(jobMu, PriorityOf(d))
    /\ jobMu' = [jobMu EXCEPT ![PriorityOf(d)] = d]
    /\ dq' = [dq EXCEPT ![d].pc = "await"]
    /\ UNCHANGED <<sjobs, waiter, ctxDone>>
    /\ UNCHANGED <<busVars, storeVars, decVars, loopVars, execVars, diagVars, parseVars, topoVars, extVars>>

\* AwaitNextJob, second step: read the first eligible job; the call blocks
\* while there is none.
AwaitRead(d) ==
    /\ dq[d].pc = "await"
    /\ Eligible(sjobs, PriorityOf(d)) # {}
    /\ dq' = [dq EXCEPT ![d] = [pc |-> "read", job |-> FirstJob(Eligible(sjobs, PriorityOf(d)))]]
    /\ UNCHANGED <<sjobs, jobMu, waiter, ctxDone>>
    /\ UNCHANGED <<busVars, storeVars, decVars, loopVars, execVars, diagVars, parseVars, topoVars, extVars>>

\* AwaitNextJob, last step: mark the job Running, release the mutex and hand
\* the job to the caller.
AwaitMark(d) ==
    /\ dq[d].pc = "read"
    /\ sjobs' = [sjobs EXCEPT ![dq[d].job].state = "Running",
                              ![dq[d].job].handed = @ + 1]
    /\ jobMu' = [jobMu EXCEPT ![PriorityOf(d)] = IF @ = d THEN NoProc ELSE @]
    /\ dq' = [dq EXCEPT ![d].pc = "running"]
    /\ UNCHANGED <<waiter, ctxDone>>
    /\ UNCHANGED <<busVars, storeVars, decVars, loopVars, execVars, diagVars, parseVars, topoVars, extVars>>

\* The job function returned (jobErr: with an error) and FinishJob records it.
FinishJob(d, jobErr) ==
    /\ dq[d].pc = "running"
    /\ sjobs' = [sjobs EXCEPT ![dq[d].job].state = "Done",
                              ![dq[d].job].jobErr = jobErr]
    /\ dq' = [dq EXCEPT ![d] = DqIdle]
    /\ UNCHANGED <<jobMu, waiter, ctxDone>>
    /\ UNCHANGED <<busVars, storeVars, decVars, loopVars, execVars, diagVars, parseVars, topoVars, extVars>>

\* Every listed job is Done.
AllDone(ids, js) == \A i \in ids : js[i].state = "Done"

\* A mutant of WaitReady: one finished job is enough.
WaitReadyAny(ids, js) == \E i \in ids : js[i].state = "Done"

\* What WaitForJobs waits for.
WaitReady(ids, js) == AllDone(ids, js)

\* TextDocumentDidOpen: WaitForJobs(ctx, jobIds...) is called.
WaitCall(ids) ==
    /\ waiter.pc = "idle"
    /\ ids \subseteq DOMAIN sjobs
    /\ waiter' = [waiter EXCEPT !.pc = "waiting", !.ids = ids]
    /\ UNCHANGED <<sjobs, jobMu, dq, ctxDone>>
    /\ UNCHANGED <<busVars, storeVars, decVars, loopVars, execVars, diagVars, parseVars, topoVars, extVars>>

\* WaitForJobs returns nil.
WaitReturn ==
    /\ waiter.pc = "waiting"
    /\ WaitReady(waiter.ids, sjobs)
    /\ waiter' = [waiter EXCEPT !.pc = "returned", !.ret = "nil"]
    /\ UNCHANGED <<sjobs, jobMu, dq, ctxDone>>
    /\ UNCHANGED <<busVars, storeVars, decVars, loopVars, execVars, diagVars, parseVars, topoVars, extVars>>

\* The caller's context is cancelled.
CtxCancel ==
    /\ ~ctxDone
    /\ ctxDone' = TRUE
    /\ UNCHANGED <<sjobs, jobMu, dq, waiter>>
    /\ UNCHANGED <<busVars, storeVars, decVars, loopVars, execVars, diagVars, parseVars, topoVars, extVars>>

\* WaitForJobs returns ctx.Err().
WaitCancelled ==
    /\ waiter.pc = "waiting"
    /\ ctxDone
    /\ waiter' = [waiter EXCEPT !.pc = "returned", !.ret = "ctxErr"]
    /\ UNCHANGED <<sjobs, jobMu, dq, ctxDone>>
    /\ UNCHANGED <<busVars, storeVars, decVars, loopVars, execVars, diagVars, parseVars, topoVars, extVars>>

----------------------------------------------------------------------------
(***************************************************************************)
(* The jobs a feature enqueues for one event.  A handler enqueues its jobs *)
(* one EnqueueJob call after the other; the jobs of a Defer are enqueued   *)
(* by the scheduler goroutine that ran the job, when its function has      *)
(* returned.  dependsOn names the jobs by type: the handler passes the ids *)
(* the earlier EnqueueJob calls returned.                                  *)
(***************************************************************************)

\* ModulesFeature.didOpen with EnableEnhancedValidation, for a module that
\* declares no module calls, and VariablesFeature.documentChanged.
JobDag(h) ==
    IF h = "modules.didOpen"
    THEN << [type |-> "ParseModuleConfiguration", priority |-> "High", dependsOn |-> {},
             by |-> "handler"],
            [type |-> "LoadModuleMetadata", priority |-> "High",
             dependsOn |-> {"ParseModuleConfiguration"}, by |-> "handler"],
            [type |-> "SchemaModuleValidation", priority |-> "High",
             dependsOn |-> {"ParseModuleConfiguration", "LoadModuleMetadata"},
             by |-> "handler"],
            [type |-> "ReferenceValidation", priority |-> "High",
             dependsOn |-> {"ParseModuleConfiguration", "LoadModuleMetadata"},
             by |-> "handler"],
            [type |-> "GetModuleDataFromRegistry", priority |-> "Low",
             dependsOn |-> {"LoadModuleMetadata"}, by |-> "handler"],
            [type |-> "PreloadEmbeddedSchema", priority |-> "High", dependsOn |-> {},
             by |-> "LoadModuleMetadata"],
            [type |-> "DecodeReferenceTargets", priority |-> "High",
             dependsOn |-> {"PreloadEmbeddedSchema"}, by |-> "LoadModuleMetadata"],
            [type |-> "DecodeReferenceOrigins", priority |-> "High",
             dependsOn |-> {"PreloadEmbeddedSchema"}, by |-> "LoadModuleMetadata"] >>
    ELSE << [type |-> "ParseVariables", priority |-> "High", dependsOn |-> {},
             by |-> "handler"],
            [type |-> "SchemaVariablesValidation", priority |-> "High", dependsOn |-> {},
             by |-> "handler"],
            [type |-> "DecodeVarsReferences", priority |-> "High",
             dependsOn |-> {"ParseVariables"}, by |-> "handler"] >>

\* The ids EnqueueJob returned for the jobs of the given types.
IdsOf(types, js) == {i \in DOMAIN js : js[i].type \in types}

\* The jobs table after the EnqueueJob call for the job j of a DAG.
Enqueue(js, j) ==
    Append(js, [ScheduledJob(j.priority, IdsOf(j.dependsOn, js)) EXCEPT !.type = j.type])

\* The handler's next EnqueueJob call.
HandlerEnqueue(h) ==
    /\ \E n \in DOMAIN JobDag(h) :
          /\ JobDag(h)[n].by = "handler"
          /\ IdsOf({JobDag(h)[n].type}, sjobs) = {}
          /\ \A m \in 1..(n - 1) :
                JobDag(h)[m].by = "handler" => IdsOf({JobDag(h)[m].type}, sjobs) # {}
          /\ sjobs' = Enqueue(sjobs, JobDag(h)[n])
    /\ UNCHANGED <<jobMu, dq, waiter, ctxDone>>
    /\ UNCHANGED <<busVars, storeVars, decVars, loopVars, execVars, diagVars, parseVars, topoVars, extVars>>

\* The jobs table after the Defer of a job of type t has enqueued its jobs.
RECURSIVE Deferred(_, _, _, _)
Deferred(h, t, n, js) ==
    IF n > Len(JobDag(h)) THEN js
    ELSE Deferred(h, t, n + 1,
                  IF JobDag(h)[n].by = t THEN Enqueue(js, JobDag(h)[n]) ELSE js)

\* The job function has returned: the scheduler goroutine calls the job's
\* Defer, if it has one, and FinishJob.
DagFinish(h, d, jobErr) ==
    /\ dq[d].pc = "running"
    /\ sjobs' = [Deferred(h, sjobs[dq[d].job].type, 1, sjobs)
                    EXCEPT ![dq[d].job].state = "Done", ![dq[d].job].jobErr = jobErr]
    /\ dq' = [dq EXCEPT ![d] = DqIdle]
    /\ UNCHANGED <<jobMu, waiter, ctxDone>>
    /\ UNCHANGED <<busVars, storeVars, decVars, loopVars, execVars, diagVars, parseVars, topoVars, extVars>>

----------------------------------------------------------------------------------------------------------------------------------------
(***************************************************************************)
(* The event-consumption goroutine of VariablesFeature (Start) and its     *)
(* handler didOpen, which serves both the didOpen and the didChange topic. *)
(* store.MetadataReady of the modules feature is not part of the sources:  *)
(* its three results are inputs, and the watch channel it returns fires at *)
(* any later moment or never.                                              *)
(***************************************************************************)
LoopInit == vloop = [pc |-> "select", pending |-> 0, total |-> 0, parseVarsId |-> 0]

\* An event is delivered into the didOpen or didChange channel of the feature.
VarsEvent ==
    /\ vloop.total < MaxPublish
    /\ vloop' = [vloop EXCEPT !.pending = @ + 1, !.total = @ + 1]
    /\ UNCHANGED <<busVars, storeVars, decVars, schedVars, execVars, diagVars, parseVars, topoVars, extVars>>

\* case open := <-didOpen / case didChange := <-didChange
VarsLoopRecv ==
    /\ vloop.pc = "select"
    /\ vloop.pending > 0
    /\ vloop' = [vloop EXCEPT !.pc = "didOpen", !.pending = @ - 1]
    /\ UNCHANGED <<busVars, storeVars, decVars, schedVars, execVars, diagVars, parseVars, topoVars, extVars>>

VarsJob(type, dependsOn) == [ScheduledJob("High", dependsOn) EXCEPT !.type = type]

\* didOpen up to its return or up to the select on the watch channel.
VarsDidOpen(hasVariableRecord, enhanced, ready) ==
    /\ vloop.pc = "didOpen"
    /\ LET parseVarsId == Len(sjobs) + 1
           js == sjobs \o << VarsJob("ParseVariables", {}),
                             VarsJob("DecodeVarsReferences", {parseVarsId}) >>
       IN  CASE ~hasVariableRecord ->
                    /\ sjobs' = sjobs
                    /\ vloop' = [vloop EXCEPT !.pc = "select"]
             [] hasVariableRecord /\ (~enhanced \/ ready = "err") ->
                    /\ sjobs' = js
                    /\ vloop' = [vloop EXCEPT !.pc = "select"]
             [] hasVariableRecord /\ enhanced /\ ready = "ready" ->
                    /\ sjobs' = Append(js, VarsJob("SchemaVariablesValidation", {parseVarsId}))
                    /\ vloop' = [vloop EXCEPT !.pc = "select"]
             [] OTHER ->
                    /\ sjobs' = js
                    /\ vloop' = [vloop EXCEPT !.pc = "waitMetadata",
                                              !.parseVarsId = parseVarsId]
    /\ UNCHANGED <<jobMu, dq, waiter, ctxDone>>
    /\ UNCHANGED <<busVars, storeVars, decVars, execVars, diagVars, parseVars, topoVars, extVars>>

\* case <-wCh: the module record changed; the validation job is enqueued.
VarsMetadataReady ==
    /\ vloop.pc = "waitMetadata"
    /\ sjobs' = Append(sjobs, VarsJob("SchemaVariablesValidation", {vloop.parseVarsId}))
    /\ vloop' = [vloop EXCEPT !.pc = "select", !.parseVarsId = 0]
    /\ UNCHANGED <<jobMu, dq, waiter, ctxDone>>
    /\ UNCHANGED <<busVars, storeVars, decVars, execVars, diagVars, parseVars, topoVars, extVars>>

\* case <-ctx.Done(): return ids, ctx.Err()
VarsCtxDone ==
    /\ vloop.pc = "waitMetadata"
    /\ vloop' = [vloop EXCEPT !.pc = "select", !.parseVarsId = 0]
    /\ UNCHANGED <<busVars, storeVars, decVars, schedVars, execVars, diagVars, parseVars, topoVars, extVars>>

----------------------------------------------------------------------------
(***************************************************************************)
(* ParseModuleManifest over the RootStore and ObtainSchema over the        *)
(* ModuleStore, executed by two goroutines for the same path.  RootRecord  *)
(* holds no map, so its Copy is the record value; every store method is    *)
(* one transaction and one step.                                           *)
(***************************************************************************)
Execs == {"e1", "e2"}

ExIdle == [pc |-> "idle", fn |-> "none", ign |-> FALSE, err |-> "nil", via |-> "none"]

NoRoot == [ok |-> FALSE, ModManifest |-> "none", ModManifestErr |-> "nil",
           ModManifestState |-> "Unknown"]

NoSchema == [ok |-> FALSE, ProviderSchemaErr |-> "nil", ProviderSchemaState |-> "Unknown"]

ExecInit == root = NoRoot /\ psch = NoSchema /\ ex = [e \in Execs |-> ExIdle]

\* f.store.AddIfNotExists(path) of the feature that owns the store.
RecordAdd(store) ==
    /\ IF store = "root"
       THEN ~root.ok /\ root' = [NoRoot EXCEPT !.ok = TRUE] /\ psch' = psch
       ELSE ~psch.ok /\ psch' = [NoSchema EXCEPT !.ok = TRUE] /\ root' = root
    /\ UNCHANGED ex
    /\ UNCHANGED <<busVars, storeVars, decVars, schedVars, loopVars, diagVars, parseVars, topoVars, extVars>>

\* The job function returns err.
ExecRet(fn, ign, err, via) == [pc |-> "done", fn |-> fn, ign |-> ign, err |-> err, via |-> via]

\* RootRecordByPath and the state check of ParseModuleManifest.
ManifestStart(e, ign) ==
    /\ ex[e].pc = "idle"
    /\ ex' = [ex EXCEPT ![e] =
                IF ~root.ok THEN ExecRet("ParseModuleManifest", ign, "NotFound", "lookup")
                ELSE IF StateSkip(root.ModManifestState, ign)
                     THEN ExecRet("ParseModuleManifest", ign, "StateNotChanged", "skip")
                ELSE [ExIdle EXCEPT !.pc = "setLoading", !.fn = "ParseModuleManifest",
                                    !.ign = ign]]
    /\ UNCHANGED <<root, psch>>
    /\ UNCHANGED <<busVars, storeVars, decVars, schedVars, loopVars, diagVars, parseVars, topoVars, extVars>>

\* rootStore.SetModManifestState(modPath, op.OpStateLoading)
ManifestSetLoading(e) ==
    /\ ex[e].pc = "setLoading"
    /\ root' = [root EXCEPT !.ModManifestState = "Loading"]
    /\ ex' = [ex EXCEPT ![e].pc = "work"]
    /\ UNCHANGED psch
    /\ UNCHANGED <<busVars, storeVars, decVars, schedVars, loopVars, diagVars, parseVars, topoVars, extVars>>

\* datadir.ModuleManifestFilePath and ParseModuleManifestFromFile.
ManifestWork(e, mErr) ==
    /\ ex[e].pc = "work"
    /\ ex' = [ex EXCEPT ![e].pc = "update", ![e].err = mErr]
    /\ UNCHANGED <<root, psch>>
    /\ UNCHANGED <<busVars, storeVars, decVars, schedVars, loopVars, diagVars, parseVars, topoVars, extVars>>

\* rootStore.UpdateModManifest(modPath, mm, err) up to txn.Commit().
ManifestUpdate(e) ==
    /\ ex[e].pc = "update"
    /\ root' = [root EXCEPT !.ModManifest = IF ex[e].err = "nil" THEN e ELSE "none",
                            !.ModManifestErr = ex[e].err]
    /\ ex' = [ex EXCEPT ![e].pc = "deferred", ![e].via = "update"]
    /\ UNCHANGED psch
    /\ UNCHANGED <<busVars, storeVars, decVars, schedVars, loopVars, diagVars, parseVars, topoVars, extVars>>

\* ModuleByPath, the state check, ProviderRequirementsForModule and
\* AllSchemasExist of ObtainSchema: reads only.
ObtainSchemaStart(e, ign, reqs) ==
    /\ ex[e].pc = "idle"
    /\ ex' = [ex EXCEPT ![e] =
                IF ~psch.ok THEN ExecRet("ObtainSchema", ign, "NotFound", "lookup")
                ELSE IF StateSkip(psch.ProviderSchemaState, ign)
                     THEN ExecRet("ObtainSchema", ign, "StateNotChanged", "skip")
                ELSE IF reqs = "err" THEN ExecRet("ObtainSchema", ign, "err", "reqs")
                ELSE IF reqs = "exist" THEN ExecRet("ObtainSchema", ign, "nil", "exist")
                ELSE [ExIdle EXCEPT !.pc = "exec", !.fn = "ObtainSchema", !.ign = ign]]
    /\ UNCHANGED <<root, psch>>
    /\ UNCHANGED <<busVars, storeVars, decVars, schedVars, loopVars, diagVars, parseVars, topoVars, extVars>>

\* TerraformExecutorForModule, tfExec.ProviderSchemas and the AddLocalSchema
\* loop; the schema store is not part of the state.
ObtainSchemaExec(e, r) ==
    /\ ex[e].pc = "exec"
    /\ ex' = [ex EXCEPT ![e] =
                CASE r = "cliErr" -> [@ EXCEPT !.pc = "finish", !.err = "err"]
                  [] r = "addErr" -> ExecRet("ObtainSchema", @.ign, "err", "add")
                  [] OTHER -> ExecRet("ObtainSchema", @.ign, "nil", "ok")]
    /\ UNCHANGED <<root, psch>>
    /\ UNCHANGED <<busVars, storeVars, decVars, schedVars, loopVars, diagVars, parseVars, topoVars, extVars>>

\* modStore.FinishProviderSchemaLoading(modPath, err) up to txn.Commit().
ObtainSchemaFinish(e) ==
    /\ ex[e].pc = "finish"
    /\ psch' = [psch EXCEPT !.ProviderSchemaErr = ex[e].err]
    /\ ex' = [ex EXCEPT ![e].pc = "deferred", ![e].via = "cliErr"]
    /\ UNCHANGED root
    /\ UNCHANGED <<busVars, storeVars, decVars, schedVars, loopVars, diagVars, parseVars, topoVars, extVars>>

\* The function registered with txn.Defer: Set...State(path, OpStateLoaded)
\* in a transaction of its own; the store method and the job function
\* return after it.
ExecDeferred(e) ==
    /\ ex[e].pc = "deferred"
    /\ IF ex[e].fn = "ObtainSchema"
       THEN psch' = [psch EXCEPT !.ProviderSchemaState = "Loaded"] /\ root' = root
       ELSE root' = [root EXCEPT !.ModManifestState = "Loaded"] /\ psch' = psch
    /\ ex' = [ex EXCEPT ![e].pc = "done"]
    /\ UNCHANGED <<busVars, storeVars, decVars, schedVars, loopVars, diagVars, parseVars, topoVars, extVars>>

\* The job function has returned; the goroutine takes the next job.
ExecReturn(e) ==
    /\ ex[e].pc = "done"
    /\ ex' = [ex EXCEPT ![e] = ExIdle]
    /\ UNCHANGED <<root, psch>>
    /\ UNCHANGED <<busVars, storeVars, decVars, schedVars, loopVars, diagVars, parseVars, topoVars, extVars>>

----------------------------------------------------------------------------
(***************************************************************************)
(* SchemaVariablesValidation and the VarsDiagnostics of one VariableRecord *)
(* for the source SchemaValidationSource.  A Go map is an address; what a  *)
(* holder of the address reads is the content stored under it.             *)
(***************************************************************************)
VarsFiles == {"f1", "f2"}

MapIds == 1..5

NoDiags == [f \in VarsFiles |-> 0]

NoVarsRecord == [ok |-> FALSE, diags |-> 0, state |-> "Unknown"]

VjobIdle == [pc |-> "idle", method |-> "none", mod |-> 0, arg |-> 0]

DiagInit ==
    /\ vmap = [a \in MapIds |-> NoDiags]
    /\ vrec = NoVarsRecord
    /\ vheld = [has |-> FALSE, diags |-> 0, seen |-> NoDiags]
    /\ vjob = VjobIdle

\* mod.VarsDiagnostics[source] read through a record: no entry reads as empty.
VarsDiagsOf(a) == IF a = 0 THEN NoDiags ELSE vmap[a]

\* make(ast.VarsDiags): an address nothing refers to.
NewMap == CHOOSE a \in MapIds :
            /\ a \notin {vrec.diags, vheld.diags, vjob.mod, vjob.arg}
            /\ \A b \in MapIds : b < a => b \in {vrec.diags, vheld.diags, vjob.mod, vjob.arg}

\* VariableStore.AddIfNotExists(path)
VarsAdd ==
    /\ ~vrec.ok
    /\ vrec' = [NoVarsRecord EXCEPT !.ok = TRUE]
    /\ UNCHANGED <<vmap, vheld, vjob>>
    /\ UNCHANGED <<busVars, storeVars, decVars, schedVars, loopVars, execVars, parseVars, topoVars, extVars>>

\* VariableRecordByPath by a reader: the stored record itself.
VarsReaderGet ==
    /\ vrec.ok
    /\ vheld' = [has |-> TRUE, diags |-> vrec.diags, seen |-> VarsDiagsOf(vrec.diags)]
    /\ UNCHANGED <<vmap, vrec, vjob>>
    /\ UNCHANGED <<busVars, storeVars, decVars, schedVars, loopVars, execVars, parseVars, topoVars, extVars>>

\* The reader lets go of the record.
VarsReaderDrop ==
    /\ vheld.has
    /\ vheld' = [has |-> FALSE, diags |-> 0, seen |-> NoDiags]
    /\ UNCHANGED <<vmap, vrec, vjob>>
    /\ UNCHANGED <<busVars, storeVars, decVars, schedVars, loopVars, execVars, parseVars, topoVars, extVars>>

\* VariableRecordByPath and the state check of SchemaVariablesValidation;
\* method is the RPC method of the document context.
ValidationStart(method, ign) ==
    /\ vjob.pc = "idle"
    /\ vrec.ok
    /\ ~StateSkip(vrec.state, ign)
    /\ vjob' = [pc |-> "setLoading", method |-> method, mod |-> vrec.diags, arg |-> 0]
    /\ UNCHANGED <<vmap, vrec, vheld>>
    /\ UNCHANGED <<busVars, storeVars, decVars, schedVars, loopVars, execVars, parseVars, topoVars, extVars>>

\* SetVarsDiagnosticsState(modPath, source, OpStateLoading): the record
\* inserted is a Copy, whose VarsDiagnostics maps are new maps.
ValidationSetLoading ==
    /\ vjob.pc = "setLoading"
    /\ IF vrec.diags = 0
       THEN vrec' = [vrec EXCEPT !.state = "Loading"] /\ vmap' = vmap
       ELSE /\ vrec' = [vrec EXCEPT !.state = "Loading", !.diags = NewMap]
            /\ vmap' = [vmap EXCEPT ![NewMap] = vmap[vrec.diags]]
    /\ vjob' = [vjob EXCEPT !.pc = "validate"]
    /\ UNCHANGED vheld
    /\ UNCHANGED <<busVars, storeVars, decVars, schedVars, loopVars, execVars, parseVars, topoVars, extVars>>

\* didChange of a tfvars file: ValidateFile and varsDiags[filename] = fileDiags
\* on the map of the record read at the start, or on a new map when the
\* record had none.  Otherwise Validate and VarsDiagsFromMap: a new map.
ValidationValidate(file, d) ==
    /\ vjob.pc = "validate"
    /\ IF vjob.method = "didChange" /\ vjob.mod # 0
       THEN /\ vmap' = [vmap EXCEPT ![vjob.mod][file] = d]
            /\ vjob' = [vjob EXCEPT !.pc = "update", !.arg = vjob.mod]
       ELSE /\ vmap' = [vmap EXCEPT ![NewMap] =
                            IF vjob.method = "didChange"
                            THEN [NoDiags EXCEPT ![file] = d]
                            ELSE [f \in VarsFiles |-> d]]
            /\ vjob' = [vjob EXCEPT !.pc = "update", !.arg = NewMap]
    /\ UNCHANGED <<vrec, vheld>>
    /\ UNCHANGED <<busVars, storeVars, decVars, schedVars, loopVars, execVars, parseVars, topoVars, extVars>>

\* UpdateVarsDiagnostics(modPath, source, varsDiags) up to txn.Commit():
\* mod.VarsDiagnostics[source] = diags on a Copy of the stored record.
ValidationUpdate ==
    /\ vjob.pc = "update"
    /\ vrec' = [vrec EXCEPT !.diags = vjob.arg]
    /\ vjob' = [vjob EXCEPT !.pc = "deferred", !.mod = 0, !.arg = 0]
    /\ UNCHANGED <<vmap, vheld>>
    /\ UNCHANGED <<busVars, storeVars, decVars, schedVars, loopVars, execVars, parseVars, topoVars, extVars>>

\* The deferred SetVarsDiagnosticsState(path, source, OpStateLoaded).
ValidationDeferred ==
    /\ vjob.pc = "deferred"
    /\ IF vrec.diags = 0
       THEN vrec' = [vrec EXCEPT !.state = "Loaded"] /\ vmap' = vmap
       ELSE /\ vrec' = [vrec EXCEPT !.state = "Loaded", !.diags = NewMap]
            /\ vmap' = [vmap EXCEPT ![NewMap] = vmap[vrec.diags]]
    /\ vjob' = VjobIdle
    /\ UNCHANGED vheld
    /\ UNCHANGED <<busVars, storeVars, decVars, schedVars, loopVars, execVars, parseVars, topoVars, extVars>>

----------------------------------------------------------------------------
(***************************************************************************)
(* ParseModuleConfiguration on two goroutines for one directory, with the  *)
(* files of the record told apart.  A file's parse result is named by the  *)
(* version of the content that was parsed; 0 is a file that is not there.  *)
(***************************************************************************)
ModFiles == {"main.tf", "vars.tf"}

NoFiles == [f \in ModFiles |-> 0]

NoModule == [ok |-> FALSE, files |-> NoFiles, diags |-> NoFiles, state |-> "Unknown"]

PjIdle == [pc |-> "idle", ret |-> "none", incr |-> FALSE, file |-> "main.tf",
           files |-> NoFiles, diags |-> NoFiles]

ParseInit ==
    /\ disk = [f \in ModFiles |-> 1]
    /\ pmod = NoModule
    /\ pj = [e \in Execs |-> PjIdle]

\* ModuleStore.AddIfNotExists(path)
ParseAdd ==
    /\ ~pmod.ok
    /\ pmod' = [NoModule EXCEPT !.ok = TRUE]
    /\ UNCHANGED <<disk, pj>>
    /\ UNCHANGED <<busVars, storeVars, decVars, schedVars, loopVars, execVars, diagVars, topoVars, extVars>>

\* The editor changes the content of a file.
DocChange(f) ==
    /\ disk[f] < MaxData
    /\ disk' = [disk EXCEPT ![f] = @ + 1]
    /\ UNCHANGED <<pmod, pj>>
    /\ UNCHANGED <<busVars, storeVars, decVars, schedVars, loopVars, execVars, diagVars, topoVars, extVars>>

\* ModuleByPath, the state check and the choice between parsing one file and
\* parsing the module; chg: the request is a didChange of file f.
ParseStart(e, ign, chg, f) ==
    /\ pj[e].pc = "idle"
    /\ pj' = [pj EXCEPT ![e] =
                IF ~pmod.ok THEN [PjIdle EXCEPT !.pc = "done", !.ret = "NotFound"]
                ELSE IF StateSkip(pmod.state, ign)
                     THEN [PjIdle EXCEPT !.pc = "done", !.ret = "StateNotChanged"]
                ELSE [pc |-> "setLoading", ret |-> "none",
                      incr |-> (pmod.state = "Loaded" /\ chg), file |-> f,
                      files |-> pmod.files, diags |-> pmod.diags]]
    /\ UNCHANGED <<disk, pmod>>
    /\ UNCHANGED <<busVars, storeVars, decVars, schedVars, loopVars, execVars, diagVars, topoVars, extVars>>

\* SetModuleDiagnosticsState(modPath, HCLParsingSource, OpStateLoading)
ParseSetLoading(e) ==
    /\ pj[e].pc = "setLoading"
    /\ pmod' = [pmod EXCEPT !.state = "Loading"]
    /\ pj' = [pj EXCEPT ![e].pc = "parse"]
    /\ UNCHANGED disk
    /\ UNCHANGED <<busVars, storeVars, decVars, schedVars, loopVars, execVars, diagVars, topoVars, extVars>>

\* parser.ParseModuleFile into a copy of the files and diagnostics of the
\* record read at the start, or parser.ParseModuleFiles of the directory.
ParseWork(e, err) ==
    /\ pj[e].pc = "parse"
    /\ pj' = [pj EXCEPT ![e] =
                IF err # "nil" THEN [@ EXCEPT !.pc = "done", !.ret = err]
                ELSE IF @.incr
                     THEN [@ EXCEPT !.pc = "updateFiles",
                                    !.files = [@ EXCEPT ![pj[e].file] = disk[pj[e].file]],
                                    !.diags = [@ EXCEPT ![pj[e].file] = disk[pj[e].file]]]
                ELSE [@ EXCEPT !.pc = "updateFiles", !.files = disk, !.diags = disk]]
    /\ UNCHANGED <<disk, pmod>>
    /\ UNCHANGED <<busVars, storeVars, decVars, schedVars, loopVars, execVars, diagVars, topoVars, extVars>>

\* UpdateParsedModuleFiles(modPath, files, err)
ParseUpdateFiles(e) ==
    /\ pj[e].pc = "updateFiles"
    /\ pmod' = [pmod EXCEPT !.files = pj[e].files]
    /\ pj' = [pj EXCEPT ![e].pc = "updateDiags"]
    /\ UNCHANGED disk
    /\ UNCHANGED <<busVars, storeVars, decVars, schedVars, loopVars, execVars, diagVars, topoVars, extVars>>

\* UpdateModuleDiagnostics(modPath, HCLParsingSource, diags) up to Commit.
ParseUpdateDiags(e) ==
    /\ pj[e].pc = "updateDiags"
    /\ pmod' = [pmod EXCEPT !.diags = pj[e].diags]
    /\ pj' = [pj EXCEPT ![e].pc = "deferred"]
    /\ UNCHANGED disk
    /\ UNCHANGED <<busVars, storeVars, decVars, schedVars, loopVars, execVars, diagVars, topoVars, extVars>>

\* The deferred SetModuleDiagnosticsState(path, source, OpStateLoaded).
ParseDeferred(e) ==
    /\ pj[e].pc = "deferred"
    /\ pmod' = [pmod EXCEPT !.state = "Loaded"]
    /\ pj' = [pj EXCEPT ![e].pc = "done", ![e].ret = "nil"]
    /\ UNCHANGED disk
    /\ UNCHANGED <<busVars, storeVars, decVars, schedVars, loopVars, execVars, diagVars, topoVars, extVars>>

\* The job function has returned; the goroutine takes the next job.
ParseReturn(e) ==
    /\ pj[e].pc = "done"
    /\ pj' = [pj EXCEPT ![e] = PjIdle]
    /\ UNCHANGED <<disk, pmod>>
    /\ UNCHANGED <<busVars, storeVars, decVars, schedVars, loopVars, execVars, diagVars, topoVars, extVars>>

----------------------------------------------------------------------------
(***************************************************************************)
(* Two topics and the goroutines around them: request handlers publish     *)
(* DidOpen; the modules and the root modules feature subscribe to it; a    *)
(* handler of the root modules feature publishes DocumentChanged, which    *)
(* the modules feature subscribes to.  Channels are counted, not listed.   *)
(***************************************************************************)
Topics == {"didOpen", "documentChanged"}

Loops == {"modules", "rootmodules"}

Goroutines == Publishers \cup Loops

\* The subscribers of DocumentChanged, in the order of their Subscribe calls.
\* DocumentChangedSubsSelf: the publishing feature is the subscriber.
DocumentChangedSubsSelf == <<"rootmodules">>
DocumentChangedSubs == <<"modules">>

SubsOf(t) == IF t = "didOpen" THEN <<"modules", "rootmodules">> ELSE DocumentChangedSubs

TpIdle == [pc |-> "idle", topic |-> "didOpen", i |-> 0]

TopoInit ==
    /\ tq = [f \in Loops |-> [t \in Topics |-> 0]]
    /\ tmu = [t \in Topics |-> NoProc]
    /\ tp = [g \in Goroutines |-> TpIdle]

\* A request handler calls eventBus.DidOpen.
TopicPublish(p) ==
    /\ tp[p].pc = "idle"
    /\ tp' = [tp EXCEPT ![p].pc = "lock", ![p].topic = "didOpen"]
    /\ UNCHANGED <<tq, tmu>>
    /\ UNCHANGED <<busVars, storeVars, decVars, schedVars, loopVars, execVars, diagVars, parseVars, extVars>>

\* eb.mutex.Lock()
TopicLock(g) ==
    /\ tp[g].pc = "lock"
    /\ LockFree(tmu[tp[g].topic])
    /\ tmu' = [tmu EXCEPT ![tp[g].topic] = g]
    /\ tp' = [tp EXCEPT ![g].pc = "send", ![g].i = 1]
    /\ UNCHANGED tq
    /\ UNCHANGED <<busVars, storeVars, decVars, schedVars, loopVars, execVars, diagVars, parseVars, extVars>>

\* subscriber <- event
TopicSend(g) ==
    /\ tp[g].pc = "send"
    /\ tp[g].i <= Len(SubsOf(tp[g].topic))
    /\ LET f == SubsOf(tp[g].topic)[tp[g].i]
       IN  /\ tq[f][tp[g].topic] < ChannelSize
           /\ tq' = [tq EXCEPT ![f][tp[g].topic] = @ + 1]
    /\ tp' = [tp EXCEPT ![g].i = @ + 1]
    /\ UNCHANGED tmu
    /\ UNCHANGED <<busVars, storeVars, decVars, schedVars, loopVars, execVars, diagVars, parseVars, extVars>>

\* The deferred eb.mutex.Unlock(); Publish returns, an event loop goes back
\* to its select.
TopicReturn(g) ==
    /\ tp[g].pc = "send"
    /\ tp[g].i > Len(SubsOf(tp[g].topic))
    /\ tmu' = [tmu EXCEPT ![tp[g].topic] = NoProc]
    /\ tp' = [tp EXCEPT ![g] = TpIdle]
    /\ UNCHANGED tq
    /\ UNCHANGED <<busVars, storeVars, decVars, schedVars, loopVars, execVars, diagVars, parseVars, extVars>>

\* One case of the select of Start: an event of topic t is received.
LoopRecv(f, t) ==
    /\ tp[f].pc = "idle"
    /\ tq[f][t] > 0
    /\ tq' = [tq EXCEPT ![f][t] = @ - 1]
    /\ tp' = [tp EXCEPT ![f].pc = "handler"]
    /\ UNCHANGED tmu
    /\ UNCHANGED <<busVars, storeVars, decVars, schedVars, loopVars, execVars, diagVars, parseVars, extVars>>

\* The handler of the event: store calls and EnqueueJob calls, and in the
\* root modules feature possibly eventbus.DocumentChanged.
LoopHandler(f, publishes) ==
    /\ tp[f].pc = "handler"
    /\ tp' = [tp EXCEPT ![f] = IF f = "rootmodules" /\ publishes
                               THEN [pc |-> "lock", topic |-> "documentChanged", i |-> 0]
                               ELSE TpIdle]
    /\ UNCHANGED <<tq, tmu>>
    /\ UNCHANGED <<busVars, storeVars, decVars, schedVars, loopVars, execVars, diagVars, parseVars, extVars>>

----------------------------------------------------------------------------
(***************************************************************************)
(* The root modules feature: didOpen enqueues GetTerraformVersion and      *)
(* ParseModuleManifest for a directory that has a root record;             *)
(* GetTerraformVersion runs "terraform version" and stores the outcome on  *)
(* the record.                                                             *)
(***************************************************************************)

NoVersion == [ok |-> FALSE, TerraformVersion |-> "nil", TerraformVersionErr |-> "nil",
              TerraformVersionState |-> "Unknown"]

GvIdle == [pc |-> "idle", ign |-> FALSE, err |-> "nil", sErr |-> "nil", ret |-> "nil",
           defer |-> FALSE]

RdoIdle == [pc |-> "idle", ids |-> <<>>, failed |-> {}, ret |-> "nil"]

RootModInit ==
    /\ tfv = NoVersion
    /\ gv = GvIdle
    /\ rdo = RdoIdle
    /\ rq = <<>>

\* The walker adds the root record of the directory: newRootRecord.
RootAdd ==
    /\ ~tfv.ok
    /\ tfv' = [NoVersion EXCEPT !.ok = TRUE]
    /\ UNCHANGED <<gv, rdo, rq>>
    /\ UNCHANGED <<oldVars, refVars, watchVars, reqVars>>

\* didOpen up to the first EnqueueJob: hasModuleRecord := f.store.Exists(path).
RootDidOpenCall ==
    /\ rdo.pc = "idle"
    /\ Len(rq) < MaxJobs
    /\ rdo' = IF tfv.ok THEN [RdoIdle EXCEPT !.pc = "version"]
              ELSE [RdoIdle EXCEPT !.pc = "done"]
    /\ UNCHANGED <<tfv, gv, rq>>
    /\ UNCHANGED <<oldVars, refVars, watchVars, reqVars>>

\* What didOpen returns when the enqueue of the GetTerraformVersion job
\* failed with err: `return ids, nil`.
VersionEnqueueFailed(err) == "nil"

\* What didOpen returns when the enqueue of the ParseModuleManifest job
\* failed with err: `return ids, err`.
ManifestEnqueueFailed(err) == err

\* EnqueueJob of the GetTerraformVersion job; fail: it returns an error.
RootEnqueueVersion(fail) ==
    /\ rdo.pc = "version"
    /\ IF fail
       THEN /\ rdo' = [rdo EXCEPT !.pc = "done", !.failed = @ \cup {"GetTerraformVersion"},
                                  !.ret = VersionEnqueueFailed("EnqueueErr")]
            /\ UNCHANGED rq
       ELSE /\ rq' = Append(rq, "GetTerraformVersion")
            /\ rdo' = [rdo EXCEPT !.pc = "manifest", !.ids = Append(@, Len(rq) + 1)]
    /\ UNCHANGED <<tfv, gv>>
    /\ UNCHANGED <<oldVars, refVars, watchVars, reqVars>>

\* EnqueueJob of the ParseModuleManifest job, and the return that follows.
RootEnqueueManifest(fail) ==
    /\ rdo.pc = "manifest"
    /\ IF fail
       THEN /\ rdo' = [rdo EXCEPT !.pc = "done", !.failed = @ \cup {"ParseModuleManifest"},
                                  !.ret = ManifestEnqueueFailed("EnqueueErr")]
            /\ UNCHANGED rq
       ELSE /\ rq' = Append(rq, "ParseModuleManifest")
            /\ rdo' = [rdo EXCEPT !.pc = "done", !.ids = Append(@, Len(rq) + 1)]
    /\ UNCHANGED <<tfv, gv>>
    /\ UNCHANGED <<oldVars, refVars, watchVars, reqVars>>

\* The caller has the result of didOpen.
RootDidOpenReturn ==
    /\ rdo.pc = "done"
    /\ rdo' = RdoIdle
    /\ UNCHANGED <<tfv, gv, rq>>
    /\ UNCHANGED <<oldVars, refVars, watchVars, reqVars>>

\* GetTerraformVersion up to SetTerraformVersionState: RootRecordByPath and
\* the state check.
VersionStart(ign) ==
    /\ gv.pc = "idle"
    /\ gv' = IF ~tfv.ok THEN [GvIdle EXCEPT !.pc = "done", !.ign = ign, !.ret = "NotFound"]
             ELSE IF StateSkip(tfv.TerraformVersionState, ign)
                  THEN [GvIdle EXCEPT !.pc = "done", !.ign = ign, !.ret = "StateNotChanged"]
             ELSE [GvIdle EXCEPT !.pc = "setLoading", !.ign = ign]
    /\ UNCHANGED <<tfv, rdo, rq>>
    /\ UNCHANGED <<oldVars, refVars, watchVars, reqVars>>

\* SetTerraformVersionState(modPath, OpStateLoading) and the defer of
\* SetTerraformVersionState(modPath, OpStateLoaded).
VersionSetLoading ==
    /\ gv.pc = "setLoading"
    /\ tfv' = [tfv EXCEPT !.TerraformVersionState = "Loading"]
    /\ gv' = [gv EXCEPT !.pc = "executor", !.defer = TRUE]
    /\ UNCHANGED <<rdo, rq>>
    /\ UNCHANGED <<oldVars, refVars, watchVars, reqVars>>

\* UpdateTerraformAndProviderVersions(modPath, v, pv, vErr): the
\* transaction and, after Commit, its deferred SetTerraformVersionState
\* (Loaded); storeErr: the transaction fails and is aborted.
UpdateVersions(rec, v, vErr, storeErr) ==
    IF storeErr THEN rec
    ELSE [rec EXCEPT !.TerraformVersion = v, !.TerraformVersionErr = vErr,
                     !.TerraformVersionState = "Loaded"]

\* The return after the executor could not be created:
\*     sErr := rootStore.UpdateTerraformAndProviderVersions(modPath, nil, nil, err)
\*     if err != nil { return sErr }
\*     return err
ReturnNoExecutor(err, sErr) == IF err # "nil" THEN sErr ELSE err

\* The return after tfExec.Version: if sErr != nil { return sErr }; return err
ReturnVersion(err, sErr) == IF sErr # "nil" THEN sErr ELSE err

\* TerraformExecutorForModule; on an error the failure is stored and the
\* function returns.
VersionExecutor(execErr, storeErr) ==
    /\ gv.pc = "executor"
    /\ IF execErr
       THEN LET sErr == IF storeErr THEN "StoreErr" ELSE "nil"
            IN  /\ tfv' = UpdateVersions(tfv, "nil", "ExecErr", storeErr)
                /\ gv' = [gv EXCEPT !.pc = "deferred", !.err = "ExecErr", !.sErr = sErr,
                                    !.ret = ReturnNoExecutor("ExecErr", sErr)]
       ELSE /\ gv' = [gv EXCEPT !.pc = "version"]
            /\ UNCHANGED tfv
    /\ UNCHANGED <<rdo, rq>>
    /\ UNCHANGED <<oldVars, refVars, watchVars, reqVars>>

\* tfExec.Version(ctx) and UpdateTerraformAndProviderVersions with what it
\* returned.
VersionRun(vErr, storeErr) ==
    /\ gv.pc = "version"
    /\ LET err == IF vErr THEN "VersionErr" ELSE "nil"
           sErr == IF storeErr THEN "StoreErr" ELSE "nil"
       IN  /\ tfv' = UpdateVersions(tfv, IF vErr THEN "nil" ELSE "v", err, storeErr)
           /\ gv' = [gv EXCEPT !.pc = "deferred", !.err = err, !.sErr = sErr,
                               !.ret = ReturnVersion(err, sErr)]
    /\ UNCHANGED <<rdo, rq>>
    /\ UNCHANGED <<oldVars, refVars, watchVars, reqVars>>

\* The deferred SetTerraformVersionState(modPath, OpStateLoaded) runs when
\* the function returns.
VersionDeferred ==
    /\ gv.pc = "deferred"
    /\ tfv' = [tfv EXCEPT !.TerraformVersionState = "Loaded"]
    /\ gv' = [gv EXCEPT !.pc = "done", !.defer = FALSE]
    /\ UNCHANGED <<rdo, rq>>
    /\ UNCHANGED <<oldVars, refVars, watchVars, reqVars>>

\* The scheduler has the result of the job.
VersionReturn ==
    /\ gv.pc = "done"
    /\ gv' = GvIdle
    /\ UNCHANGED <<tfv, rdo, rq>>
    /\ UNCHANGED <<oldVars, refVars, watchVars, reqVars>>

----------------------------------------------------------------------------
(***************************************************************************)
(* ModulesFeature.didChangeWatched for one watched path.  The handler      *)
(* asks the file system what the path is (modHandleFromRawOsPath) and the  *)
(* stores whether the document is open and whether its directory has a     *)
(* root record.  Reading a field through a nil *parsedModuleHandle is a    *)
(* nil pointer dereference: the runtime panics and the process ends.       *)
(***************************************************************************)

\* What os.Stat and the file name tell about the path.
PathKinds == {"missing", "dir", "moduleFile", "otherFile"}

ChangeTypes == {"Deleted", "Changed", "Created"}

WatchIdle == [fs |-> "missing", open |-> FALSE, root |-> FALSE,
              pc |-> "idle", change |-> "Changed", ph |-> "nil", err |-> "nil",
              ret |-> "nil", crashed |-> FALSE]

WatchInit == watch = WatchIdle

\* The path is created, replaced or removed on disk.
FsChange(kind) ==
    /\ ~watch.crashed
    /\ watch.fs # kind
    /\ watch' = [watch EXCEPT !.fs = kind]
    /\ UNCHANGED <<oldVars, rootModVars, refVars, reqVars>>

\* textDocument/didOpen or didClose of the document at the path.
DocOpenClose ==
    /\ ~watch.crashed
    /\ watch' = [watch EXCEPT !.open = ~@]
    /\ UNCHANGED <<oldVars, rootModVars, refVars, reqVars>>

\* The walker adds the root record of the directory of the path.
WatchRootAdd ==
    /\ ~watch.crashed
    /\ ~watch.root
    /\ watch' = [watch EXCEPT !.root = TRUE]
    /\ UNCHANGED <<oldVars, rootModVars, refVars, reqVars>>

\* didChangeWatched(ctx, fileURI, changeType) up to the switch, for a URI
\* outside the data directory.
WatchedCall(changeType) ==
    /\ ~watch.crashed
    /\ watch.pc = "idle"
    /\ watch' = [watch EXCEPT !.pc = IF changeType = "Deleted" THEN "deleted"
                                     ELSE IF changeType = "Changed" THEN "isOpen"
                                     ELSE "handle",
                              !.change = changeType, !.ph = "nil", !.err = "nil",
                              !.ret = "nil"]
    /\ UNCHANGED <<oldVars, rootModVars, refVars, reqVars>>

\* case protocol.Deleted: only lookups and os.Stat of the parent directory;
\* every branch returns.
WatchedDeleted ==
    /\ ~watch.crashed
    /\ watch.pc = "deleted"
    /\ watch' = [watch EXCEPT !.pc = "done",
                              !.ret = IF watch.root THEN "nil" ELSE "NotFound"]
    /\ UNCHANGED <<oldVars, rootModVars, refVars, reqVars>>

\* case protocol.Changed: an open document was handled by didChange already.
WatchedIsOpen ==
    /\ ~watch.crashed
    /\ watch.pc = "isOpen"
    /\ watch' = IF watch.open THEN [watch EXCEPT !.pc = "done"]
                ELSE [watch EXCEPT !.pc = "handle"]
    /\ UNCHANGED <<oldVars, rootModVars, refVars, reqVars>>

\* modHandleFromRawOsPath: the handle and the error it returns.
ModHandleFromRawOsPath(kind) ==
    CASE kind = "missing" -> [ph |-> "nil", err |-> "StatErr"]
      [] kind = "dir" -> [ph |-> "dir", err |-> "nil"]
      [] kind = "otherFile" -> [ph |-> "nil", err |-> "ErrorSkip"]
      [] OTHER -> [ph |-> "file", err |-> "nil"]

\* The test after modHandleFromRawOsPath:
\*     if err != nil { if err != ErrorSkip { return ids, err } }
\* The handler goes on for a nil error and for ErrorSkip.
GoesOn(err) == err = "nil" \/ err = "ErrorSkip"

\* ph, err := modHandleFromRawOsPath(ctx, rawPath) and the test on err.
WatchedHandle ==
    /\ ~watch.crashed
    /\ watch.pc = "handle"
    /\ LET h == ModHandleFromRawOsPath(watch.fs)
       IN  watch' = IF GoesOn(h.err)
                    THEN [watch EXCEPT !.pc = "use", !.ph = h.ph, !.err = h.err]
                    ELSE [watch EXCEPT !.pc = "done", !.ph = h.ph, !.err = h.err,
                                       !.ret = h.err]
    /\ UNCHANGED <<oldVars, rootModVars, refVars, reqVars>>

\* f.rootFeature.RootRecordByPath(ph.DirHandle.Path()) in the Changed case,
\* `if ph.IsDir` in the Created case: both read through ph.
WatchedUse ==
    /\ ~watch.crashed
    /\ watch.pc = "use"
    /\ watch' = IF watch.ph = "nil" THEN [watch EXCEPT !.crashed = TRUE]
                ELSE [watch EXCEPT !.pc = "done",
                                   !.ret = IF watch.change = "Changed" /\ ~watch.root
                                           THEN "NotFound" ELSE "nil"]
    /\ UNCHANGED <<oldVars, rootModVars, refVars, reqVars>>

\* The handler returned to the event loop.
WatchedReturn ==
    /\ ~watch.crashed
    /\ watch.pc = "done"
    /\ watch' = [watch EXCEPT !.pc = "idle"]
    /\ UNCHANGED <<oldVars, rootModVars, refVars, reqVars>>

----------------------------------------------------------------------------
(***************************************************************************)
(* ModuleStore.ProviderRequirementsForModule.  The recursion over the      *)
(* local module calls is kept as an explicit call stack: one frame per     *)
(* invocation of providerRequirementsForModule, with its level argument,   *)
(* its requirements map and the module calls the range loop has still to   *)
(* visit; the calls are visited in any order.  A constraint is a pointer:  *)
(* the one a module declares for a provider is the pair                    *)
(* <<module, provider>>.                                                   *)
(***************************************************************************)

\* s.MaxModuleNesting; the server sets it to 50.
MaxModuleNesting == 2

ReqProviders == {"aws", "random"}

\* A nil or empty tfmod.ProviderRequirements.
NoReqs == [p \in {} |-> <<>>]

NoMeta == [ok |-> FALSE, reqs |-> {}, calls |-> {}]

NoRes == [reqs |-> NoReqs, err |-> "nil"]

PrIdle == [pc |-> "idle", top |-> "a", stack |-> <<>>, res |-> NoRes, deep |-> FALSE]

ReqInit ==
    /\ meta = [p \in Paths |-> NoMeta]
    /\ pr = PrIdle

\* LoadModuleMetadata stores the provider requirements and the module calls
\* declared in the directory.
MetaStore(p, reqs, calls) ==
    /\ pr.pc = "idle"
    /\ meta[p] # [ok |-> TRUE, reqs |-> reqs, calls |-> calls]
    /\ meta' = [meta EXCEPT ![p] = [ok |-> TRUE, reqs |-> reqs, calls |-> calls]]
    /\ UNCHANGED pr
    /\ UNCHANGED <<oldVars, rootModVars, refVars, watchVars>>

\* A new invocation providerRequirementsForModule(path, level).
Frame(path, level) ==
    [path |-> path, level |-> level, phase |-> "enter", requirements |-> NoReqs, todo |-> {}]

\* The invocation that is running.
Top == pr.stack[Len(pr.stack)]

\* pr with the running invocation replaced by f.
WithTop(f) == [pr EXCEPT !.stack = [pr.stack EXCEPT ![Len(pr.stack)] = f]]

\* The running invocation returns r: to its caller, which has the loop body
\* after the recursive call to run, or to the caller of
\* ProviderRequirementsForModule.
Pop(r) ==
    IF Len(pr.stack) = 1
    THEN [pr EXCEPT !.pc = "done", !.stack = <<>>, !.res = r]
    ELSE LET rest == SubSeq(pr.stack, 1, Len(pr.stack) - 1)
         IN  [pr EXCEPT !.stack = [rest EXCEPT ![Len(rest)].phase = "merge"], !.res = r]

\* if level > s.MaxModuleNesting
\* TooDeepLate: the check against a limit two levels higher.
TooDeepLate(level) == level > MaxModuleNesting + 2
TooDeep(level) == level > MaxModuleNesting

\* ProviderRequirementsForModule(modPath): level 0.
ReqCall(p) ==
    /\ pr.pc = "idle"
    /\ pr' = [PrIdle EXCEPT !.pc = "run", !.top = p, !.stack = <<Frame(p, 0)>>]
    /\ UNCHANGED meta
    /\ UNCHANGED <<oldVars, rootModVars, refVars, watchVars>>

\* The head of the function: the nesting check, ModuleByPath, level++ and
\* the copy of the module's own requirements.
ReqEnter ==
    /\ pr.pc = "run"
    /\ Top.phase = "enter"
    /\ pr' = IF TooDeep(Top.level) THEN Pop([reqs |-> NoReqs, err |-> "TooDeep"])
             ELSE IF ~meta[Top.path].ok THEN Pop([reqs |-> NoReqs, err |-> "NotFound"])
             ELSE WithTop([Top EXCEPT
                      !.phase = "loop",
                      !.level = @ + 1,
                      !.requirements = [p \in meta[Top.path].reqs |-> << <<Top.path, p>> >>],
                      !.todo = meta[Top.path].calls])
    /\ UNCHANGED meta
    /\ UNCHANGED <<oldVars, rootModVars, refVars, watchVars>>

\* One iteration of `for _, mc := range mod.Meta.ModuleCalls` up to the
\* recursive call: a call that is not local is skipped.
ReqLoop(mc) ==
    /\ pr.pc = "run"
    /\ Top.phase = "loop"
    /\ mc \in Top.todo
    /\ LET f == [Top EXCEPT !.todo = @ \ {mc}]
       IN  pr' = IF mc = Registry THEN WithTop(f)
                 ELSE [WithTop(f) EXCEPT !.stack = Append(@, Frame(mc, Top.level)),
                                         !.deep = @ \/ Top.level > MaxModuleNesting]
    /\ UNCHANGED meta
    /\ UNCHANGED <<oldVars, rootModVars, refVars, watchVars>>

\* The inner loop: the constraints of pCons that cons does not contain
\* (constraintContains compares pointers) are appended to it.
AppendMissing(cons, pCons) ==
    cons \o SelectSeq(pCons, LAMBDA c : c \notin Range(cons))

\* The loop over the requirements the recursive call returned:
\*     if cons, ok := requirements[pAddr]; ok { ...append what is missing... }
\*     requirements[pAddr] = pCons
MergeRequirements(requirements, child) ==
    LET appended == [p \in DOMAIN requirements |->
                        IF p \in DOMAIN child
                        THEN AppendMissing(requirements[p], child[p])
                        ELSE requirements[p]]
    IN  [p \in DOMAIN appended \cup DOMAIN child |->
            IF p \in DOMAIN child THEN child[p] ELSE appended[p]]

\* The rest of the loop body, after the recursive call has returned.
ReqMerge ==
    /\ pr.pc = "run"
    /\ Top.phase = "merge"
    /\ pr' = IF pr.res.err # "nil"
             THEN Pop([reqs |-> Top.requirements, err |-> pr.res.err])
             ELSE [WithTop([Top EXCEPT
                       !.phase = "loop",
                       !.requirements = MergeRequirements(@, pr.res.reqs)])
                   EXCEPT !.res = NoRes]
    /\ UNCHANGED meta
    /\ UNCHANGED <<oldVars, rootModVars, refVars, watchVars>>

\* return requirements, nil
ReqFinish ==
    /\ pr.pc = "run"
    /\ Top.phase = "loop"
    /\ Top.todo = {}
    /\ pr' = Pop([reqs |-> Top.requirements, err |-> "nil"])
    /\ UNCHANGED meta
    /\ UNCHANGED <<oldVars, rootModVars, refVars, watchVars>>

\* The caller has the result.
ReqReturn ==
    /\ pr.pc = "done"
    /\ pr' = PrIdle
    /\ UNCHANGED meta
    /\ UNCHANGED <<oldVars, rootModVars, refVars, watchVars>>

----------------------------------------------------------------------------
(***************************************************************************)
(* Two goroutines writing different fields of one ModuleRecord: one calls  *)
(* SetReferenceTargetsState / UpdateReferenceTargets, the other            *)
(* SetReferenceOriginsState / UpdateReferenceOrigins.  Every call is       *)
(* s.db.Txn(true), moduleCopyByPath, the assignment to the copy,           *)
(* txn.Insert and txn.Commit; an Update call is followed by its deferred   *)
(* Set...State(Loaded), a transaction of its own.  db.Txn(true) takes the  *)
(* writer lock of the database and Commit releases it.                     *)
(***************************************************************************)

\* The field a caller writes; the caller is named after it.
RefFields == {"RefTargets", "RefOrigins"}

\* The reference targets or origins a decoding job collected; 0 is nil.
RefData == {"r1", "r2"}

\* RefTargets, RefTargetsErr, RefTargetsState of newModule (and the same
\* for the origins).
NoRefs == [data |-> 0, err |-> "nil", state |-> "Unknown"]

RwIdle == [pc |-> "idle", op |-> "SetState", data |-> 0, err |-> "nil", state |-> "Unknown",
           copy |-> [f \in RefFields |-> NoRefs], want |-> NoRefs, overlap |-> FALSE]

RefInit ==
    /\ refs = [f \in RefFields |-> NoRefs]
    /\ wmu = NoProc
    /\ rw = [f \in RefFields |-> RwIdle]

\* s.db.Txn(true) can proceed: no other write transaction is open.
\* WriterFreeAlways: a database without the writer lock.
WriterFreeAlways(holder) == TRUE
WriterFree(holder) == holder = NoProc

\* A goroutine calls Set<Field>State(path, OpStateLoading).
RefSetState(f) ==
    /\ rw[f].pc = "idle"
    /\ rw' = [rw EXCEPT ![f] = [RwIdle EXCEPT
                 !.pc = "txn", !.op = "SetState", !.state = "Loading",
                 !.want = [rw[f].want EXCEPT !.state = "Loading"],
                 !.overlap = \E g \in RefFields \ {f} : rw[g].pc # "idle"]]
    /\ UNCHANGED <<refs, wmu>>
    /\ UNCHANGED <<oldVars, rootModVars, watchVars, reqVars>>

\* A goroutine calls Update<Field>(path, data, err).
RefUpdate(f, d, e) ==
    /\ rw[f].pc = "idle"
    /\ rw' = [rw EXCEPT ![f] = [RwIdle EXCEPT
                 !.pc = "txn", !.op = "Update", !.data = d, !.err = e,
                 !.want = [data |-> d, err |-> e, state |-> "Loaded"],
                 !.overlap = \E g \in RefFields \ {f} : rw[g].pc # "idle"]]
    /\ UNCHANGED <<refs, wmu>>
    /\ UNCHANGED <<oldVars, rootModVars, watchVars, reqVars>>

\* txn := s.db.Txn(true); mod, err := moduleCopyByPath(txn, path)
RefTxn(f) ==
    /\ rw[f].pc = "txn"
    /\ WriterFree(wmu)
    /\ wmu' = f
    /\ rw' = [rw EXCEPT ![f].pc = "insert", ![f].copy = refs]
    /\ UNCHANGED refs
    /\ UNCHANGED <<oldVars, rootModVars, watchVars, reqVars>>

\* The assignment to the copy, txn.Insert(s.tableName, mod), txn.Commit().
\* After the Commit of an Update call its deferred function calls
\* Set<Field>State(path, OpStateLoaded).
RefCommit(f) ==
    /\ rw[f].pc = "insert"
    /\ LET j == rw[f]
           mod == IF j.op = "SetState"
                  THEN [j.copy EXCEPT ![f].state = j.state]
                  ELSE [j.copy EXCEPT ![f].data = j.data, ![f].err = j.err]
       IN  /\ refs' = mod
           /\ rw' = [rw EXCEPT ![f] =
                        IF j.op = "Update"
                        THEN [j EXCEPT !.pc = "txn", !.op = "SetState", !.state = "Loaded"]
                        ELSE [j EXCEPT !.pc = "idle"]]
    /\ wmu' = IF wmu = f THEN NoProc ELSE wmu
    /\ UNCHANGED <<oldVars, rootModVars, watchVars, reqVars>>

----------------
(***************************************************************************)
(* Specifications                                                          *)
(***************************************************************************)

ExtInit == RootModInit /\ RefInit /\ WatchInit /\ ReqInit

\* The server after construction: a topic without subscribers, empty stores,
\* an empty job store.
Init == BusInit /\ StoreEmpty /\ DecInit /\ SchedInit /\ LoopInit /\ ExecInit /\ DiagInit /\ ParseInit /\ TopoInit /\ ExtInit

\* The store API called by one goroutine while a reader holds records.
StoreNext ==
    \/ \E w \in Workers : RunDeferred(w)
    \/ \E w \in Workers : ApiAdd(w, "module", "a")
    \/ \E w \in Workers : ApiSetMetaState(w, "module", "a")
    \/ \E w \in Workers, e \in {"nil", "err"} : ApiUpdateMetadata(w, "module", "a", e)
    \/ \E w \in Workers : ApiSetDiagnosticsState(w, "module", "a", "HCLParsing")
    \/ \E w \in Workers : ApiUpdateDiagnostics(w, "module", "a", "HCLParsing")
    \/ \E r \in Readers : ReaderGet(r, "module", "a")
    \/ \E r \in Readers : ReaderDrop(r)

SpecStore == Init /\ [][StoreNext]_vars

\* Job functions run one after the other on records of both stores.
JobsNext ==
    \/ \E w \in Workers, k \in Kinds, q \in Paths : ApiAdd(w, k, q)
    \/ \E w \in Workers, fn \in JobFns, q \in Paths, ign \in BOOLEAN, chg \in BOOLEAN :
          JobStart(w, fn, q, ign, chg)
    \/ \E w \in Workers : JobSetLoading(w)
    \/ \E w \in Workers, e \in {"nil", "err"} : JobWork(w, e)
    \/ \E w \in Workers : JobUpdateFiles(w)
    \/ \E w \in Workers : JobUpdateDiags(w)
    \/ \E w \in Workers : RunDeferred(w)
    \/ \E w \in Workers : JobReturn(w)

SpecJobs == Init /\ [][JobsNext]_vars

\* The records the callers below work on: two paths of the module store and
\* one of the stacks store.
Targets == {<<"module", "a">>, <<"module", "b">>, <<"stacks", "a">>}

\* Callers of the store methods that look at the result.
RecordsNext ==
    \/ \E w \in Workers, op \in StoreMethods, t \in Targets :
          StoreCall(w, op, t[1], t[2])
    \/ \E w \in Workers, e \in {"nil", "err"} : ApiUpdateMetadata(w, "module", "a", e)
    \/ \E w \in Workers : RunDeferred(w)

SpecRecords == Init /\ [][RecordsNext]_vars

\* One decodeDeclaredModuleCalls call over any declared calls, file system
\* and module store.
DecodeNext ==
    \/ \E w \in Workers, q \in Paths : ApiAdd(w, "module", q)
    \/ \E d \in DeclaredCalls, fs \in [Paths -> FsKinds], ign \in BOOLEAN, ok \in BOOLEAN :
          DecodeCall(d, fs, ign, ok)
    \/ DecodeStat
    \/ \E addFail \in BOOLEAN : DecodeAdd(addFail)
    \/ \E fail \in BOOLEAN : DecodeEnqueue(fail)
    \/ DecodeReturn

SpecDecode == Init /\ [][DecodeNext]_vars

\* The job store with its scheduler goroutines: two for high priority jobs and
\* one for low priority jobs.
SchedNext ==
    \/ \E p \in Priorities, deps \in SUBSET (1..MaxJobs) : EnqueueJob(p, deps)
    \/ \E d \in Dequeuers : AwaitLock(d)
    \/ \E d \in Dequeuers : AwaitRead(d)
    \/ \E d \in Dequeuers : AwaitMark(d)
    \/ \E d \in Dequeuers, jobErr \in BOOLEAN : FinishJob(d, jobErr)

SpecSched == Init /\ [][SchedNext]_vars

\* The job store with one scheduler goroutine and high priority jobs only.
SchedFairNext ==
    \/ \E deps \in SUBSET (1..MaxJobs) : EnqueueJob("High", deps)
    \/ AwaitLock("h1")
    \/ AwaitRead("h1")
    \/ AwaitMark("h1")
    \/ \E jobErr \in BOOLEAN : FinishJob("h1", jobErr)

\* The scheduler goroutine runs in a loop for the life of the server: it does
\* not stop inside AwaitNextJob or before FinishJob while it can go on.
SpecSchedFair ==
    /\ Init
    /\ [][SchedFairNext]_vars
    /\ WF_vars(AwaitLock("h1"))
    /\ WF_vars(AwaitRead("h1"))
    /\ WF_vars(AwaitMark("h1"))
    /\ WF_vars(\E jobErr \in BOOLEAN : FinishJob("h1", jobErr))

\* One caller of WaitForJobs next to a job store with one scheduler goroutine
\* and high priority jobs only.
WaitNext ==
    \/ \E deps \in SUBSET (1..MaxJobs) : EnqueueJob("High", deps)
    \/ AwaitLock("h1")
    \/ AwaitRead("h1")
    \/ AwaitMark("h1")
    \/ \E jobErr \in BOOLEAN : FinishJob("h1", jobErr)
    \/ \E ids \in SUBSET (1..MaxJobs) : WaitCall(ids)
    \/ WaitReturn
    \/ CtxCancel
    \/ WaitCancelled

SpecWait == Init /\ [][WaitNext]_vars

\* One event handled by a feature, and the scheduler goroutines.
DagNext(h) ==
    \/ HandlerEnqueue(h)
    \/ \E d \in Dequeuers : AwaitLock(d)
    \/ \E d \in Dequeuers : AwaitRead(d)
    \/ \E d \in Dequeuers : AwaitMark(d)
    \/ \E d \in Dequeuers, jobErr \in BOOLEAN : DagFinish(h, d, jobErr)

SpecModulesDidOpen == Init /\ [][DagNext("modules.didOpen")]_vars

SpecVariablesChanged == Init /\ [][DagNext("variables.documentChanged")]_vars

\* The variables feature handling document events.
VarsNext ==
    \/ VarsEvent
    \/ VarsLoopRecv
    \/ \E h \in BOOLEAN, e \in BOOLEAN, r \in {"ready", "notReady", "err"} : VarsDidOpen(h, e, r)
    \/ VarsMetadataReady
    \/ VarsCtxDone
    \/ AwaitLock("h1")
    \/ AwaitRead("h1")
    \/ AwaitMark("h1")
    \/ \E e \in BOOLEAN : FinishJob("h1", e)

SpecVariablesDidOpen == Init /\ [][VarsNext]_vars


\* Two scheduler goroutines executing jobs for one directory.
ExecNext ==
    \/ \E st \in {"root", "module"} : RecordAdd(st)
    \/ \E e \in Execs, ign \in BOOLEAN : ManifestStart(e, ign)
    \/ \E e \in Execs : ManifestSetLoading(e)
    \/ \E e \in Execs, mErr \in {"nil", "err"} : ManifestWork(e, mErr)
    \/ \E e \in Execs : ManifestUpdate(e)
    \/ \E e \in Execs, ign \in BOOLEAN, reqs \in {"err", "exist", "missing"} :
          ObtainSchemaStart(e, ign, reqs)
    \/ \E e \in Execs, r \in {"cliErr", "addErr", "ok"} : ObtainSchemaExec(e, r)
    \/ \E e \in Execs : ObtainSchemaFinish(e)
    \/ \E e \in Execs : ExecDeferred(e)
    \/ \E e \in Execs : ExecReturn(e)

SpecExec == Init /\ [][ExecNext]_vars


\* Validation jobs of one tfvars directory, one after another, and a reader.
DiagNext ==
    \/ VarsAdd
    \/ VarsReaderGet
    \/ VarsReaderDrop
    \/ \E method \in {"didOpen", "didChange"}, ign \in BOOLEAN : ValidationStart(method, ign)
    \/ ValidationSetLoading
    \/ \E f \in VarsFiles, d \in 1..MaxData : ValidationValidate(f, d)
    \/ ValidationUpdate
    \/ ValidationDeferred

SpecValidation == Init /\ [][DiagNext]_vars


\* Parse jobs of one module directory on two scheduler goroutines.
ParseNext ==
    \/ ParseAdd
    \/ \E f \in ModFiles : DocChange(f)
    \/ \E e \in Execs, ign \in BOOLEAN, chg \in BOOLEAN, f \in ModFiles : ParseStart(e, ign, chg, f)
    \/ \E e \in Execs : ParseSetLoading(e)
    \/ \E e \in Execs, err \in {"nil", "err"} : ParseWork(e, err)
    \/ \E e \in Execs : ParseUpdateFiles(e)
    \/ \E e \in Execs : ParseUpdateDiags(e)
    \/ \E e \in Execs : ParseDeferred(e)
    \/ \E e \in Execs : ParseReturn(e)

SpecParse == Init /\ [][ParseNext]_vars


\* One request handler at a time, the two topics and the two feature loops.
TopoNext ==
    \/ TopicPublish("p1")
    \/ \E g \in Goroutines : TopicLock(g)
    \/ \E g \in Goroutines : TopicSend(g)
    \/ \E g \in Goroutines : TopicReturn(g)
    \/ \E f \in Loops, t \in Topics : LoopRecv(f, t)
    \/ \E f \in Loops, b \in BOOLEAN : LoopHandler(f, b)

SpecTopics == Init /\ [][TopoNext]_vars

\* Go runs every runnable goroutine, and a feature loop in its select takes
\* an event when a channel holds one.
SpecTopicsFair ==
    /\ SpecTopics
    /\ \A g \in Goroutines : WF_vars(TopicLock(g) \/ TopicSend(g) \/ TopicReturn(g))
    /\ \A f \in Loops : WF_vars(\E t \in Topics : LoopRecv(f, t))
    /\ \A f \in Loops : WF_vars(\E b \in BOOLEAN : LoopHandler(f, b))


\* The root modules feature handling didOpen while the scheduler runs
\* GetTerraformVersion.
RootModNext ==
    \/ RootAdd
    \/ RootDidOpenCall
    \/ \E fail \in BOOLEAN : RootEnqueueVersion(fail)
    \/ \E fail \in BOOLEAN : RootEnqueueManifest(fail)
    \/ RootDidOpenReturn
    \/ \E ign \in BOOLEAN : VersionStart(ign)
    \/ VersionSetLoading
    \/ \E execErr \in BOOLEAN, storeErr \in BOOLEAN : VersionExecutor(execErr, storeErr)
    \/ \E vErr \in BOOLEAN, storeErr \in BOOLEAN : VersionRun(vErr, storeErr)
    \/ VersionDeferred
    \/ VersionReturn

SpecRootModules == Init /\ [][RootModNext]_vars

\* Watched-file events for one path while the path changes on disk.
WatchNext ==
    \/ \E kind \in PathKinds : FsChange(kind)
    \/ DocOpenClose
    \/ WatchRootAdd
    \/ \E changeType \in ChangeTypes : WatchedCall(changeType)
    \/ WatchedDeleted
    \/ WatchedIsOpen
    \/ WatchedHandle
    \/ WatchedUse
    \/ WatchedReturn

SpecWatched == Init /\ [][WatchNext]_vars

\* Calls of ProviderRequirementsForModule on the module graphs that
\* LoadModuleMetadata can store for two directories.
ReqStep ==
    \/ ReqEnter
    \/ \E mc \in CallTargets : ReqLoop(mc)
    \/ ReqMerge
    \/ ReqFinish

ReqNext ==
    \/ \E p \in Paths, reqs \in SUBSET ReqProviders, calls \in SUBSET CallTargets :
          MetaStore(p, reqs, calls)
    \/ \E p \in Paths : ReqCall(p)
    \/ ReqStep
    \/ ReqReturn

SpecRequirements == Init /\ [][ReqNext]_vars

\* The goroutine that called ProviderRequirementsForModule keeps running.
SpecRequirementsFair == SpecRequirements /\ WF_vars(ReqStep)

\* Concurrent store calls on the reference targets and the reference
\* origins of one record.
RefsNext ==
    \/ \E f \in RefFields : RefSetState(f)
    \/ \E f \in RefFields, d \in RefData, e \in {"nil", "err"} : RefUpdate(f, d, e)
    \/ \E f \in RefFields : RefTxn(f)
    \/ \E f \in RefFields : RefCommit(f)

SpecRefs == Init /\ [][RefsNext]_vars

BusNext ==
    \/ \E f \in Features : FeatureStart(f)
    \/ \E f \in Features : FeatureLoopRecv(f)
    \/ \E f \in Features : FeatureStop(f)
    \/ \E f \in Features : FeatureLoopExit(f)
    \/ \E ch \in DOMAIN sent : Unsubscribe(ch)
    \/ \E p \in Publishers : PublisherStep(p, MaxPublish)

SpecBus == Init /\ [][BusNext]_vars

\* The server starts every feature before the first event is published.
StartedInit ==
    /\ subscribers = <<1, 2>>
    /\ sent = << <<>>, <<>> >>
    /\ rcvd = <<0, 0>>
    /\ mutex = NoProc
    /\ pub = [p \in Publishers |-> PubIdle]
    /\ nextEvent = 0
    /\ unsubscribed = {}
    /\ feat = [f \in Features |->
                 [state |-> "running", ch |-> IF f = "modules" THEN 1 ELSE 2]]
    /\ busPanic = FALSE

BackpressureNext ==
    \/ \E f \in Features : FeatureLoopRecv(f)
    \/ \E f \in Features : FeatureStop(f)
    \/ \E f \in Features : FeatureLoopExit(f)
    \/ \E p \in Publishers : PublisherStep(p, MaxBurst)

InitStarted == StartedInit /\ StoreEmpty /\ DecInit /\ SchedInit /\ LoopInit /\ ExecInit /\ DiagInit /\ ParseInit /\ TopoInit /\ ExtInit

SpecBackpressure == InitStarted /\ [][BackpressureNext]_vars


\* Go runs every runnable goroutine, sync.Mutex hands the lock to a waiter,
\* and a feature loop whose channel holds an event receives it.
SpecBackpressureFair ==
    /\ SpecBackpressure
    /\ \A p \in Publishers :
          WF_vars(PublishLock(p) \/ PublishSend(p) \/ PublishReturn(p))
    /\ \A f \in Features : WF_vars(FeatureLoopRecv(f))

\* Unsubscribe calls during a burst of events that fills a buffer.
BlockedNext ==
    \/ \E f \in Features : FeatureLoopRecv(f)
    \/ \E ch \in DOMAIN sent : Unsubscribe(ch)
    \/ PublisherStep("p1", MaxBurst)

SpecBlocked == InitStarted /\ [][BlockedNext]_vars

\* The publisher is inside the range loop with a subscriber still to serve.
Sending(p) == pub[p].pc = "send" /\ pub[p].i <= Len(pub[p].subs)

\* The channel the publisher sends to next.
Target(p) == pub[p].subs[pub[p].i]

\* The publisher has served every subscriber of the range loop.
LoopFinished(p) == pub[p].pc = "send" /\ pub[p].i > Len(pub[p].subs)

----------------------------------------------------------------------------
(***************************************************************************)
(* Claims about the event bus                                              *)
(***************************************************************************)

\* C2: when the loop of one Publish(E) has finished, E was enqueued exactly
\* once on the channel of every registered subscriber and on no other
\* channel, and never on a channel that Unsubscribe removed before the
\* Publish call began.
C2_FanOutExactlyOnce ==
    \A p \in Publishers :
        LoopFinished(p) =>
            /\ \A ch \in DOMAIN sent :
                  Count(pub[p].ev, sent[ch]) = IF ch \in Range(subscribers) THEN 1 ELSE 0
            /\ \A ch \in pub[p].gone : pub[p].ev \notin Range(sent[ch])

\* C2 witness: a Publish served at least one registered subscriber after
\* another subscriber had been removed before the call began.
C2_Witness ==
    \E p \in Publishers :
        LoopFinished(p) /\ Len(pub[p].subs) >= 1 /\ pub[p].gone # {}

\* C3 (as claimed): after Stop the feature's channel is no longer registered,
\* so no Publish ever waits on the full channel of a feature whose event
\* loop has exited.
C3_NoPublishBlockedOnStopped ==
    \A p \in Publishers : \A f \in Features :
        (Sending(p) /\ feat[f].state = "exited" /\ Target(p) = feat[f].ch)
            => ~ChanFull(Target(p))

\* C9: a send of Publish can proceed exactly when the subscriber's channel
\* holds fewer than ChannelSize events, taking the mutex can proceed exactly
\* when no other Publish is inside its loop, no channel ever holds more than
\* ChannelSize events, and while every feature loop keeps receiving every
\* Publish call returns.
C9_BlocksOnlyOnFullBuffer ==
    /\ [](\A p \in Publishers :
            /\ Sending(p) => (ENABLED PublishSend(p) <=> Pending(Target(p)) < ChannelSize)
            /\ pub[p].pc = "lock" =>
                  (ENABLED PublishLock(p) <=> \A q \in Publishers : pub[q].pc # "send"))
    /\ [](\A ch \in DOMAIN sent : Pending(ch) <= ChannelSize)
    /\ \A p \in Publishers :
          (pub[p].pc # "idle") ~>
              (pub[p].pc = "idle" \/ \E f \in Features : feat[f].state # "running")

\* C9 witness: a Publish waits on a subscriber whose channel holds
\* ChannelSize events while every feature loop is still running.
C9_Witness ==
    \E p \in Publishers :
        /\ Sending(p)
        /\ Pending(Target(p)) = ChannelSize
        /\ \A f \in Features : feat[f].state = "running"

\* C10: every channel carries the events in the order in which the Publish
\* calls took the topic, and any two events that two subscribers both got
\* are in the same relative order on both channels.
C10_SameOrderEverywhere ==
    /\ \A ch \in DOMAIN sent : \A i, j \in DOMAIN sent[ch] :
          i < j => sent[ch][i] < sent[ch][j]
    /\ \A c1, c2 \in DOMAIN sent : \A e1, e2 \in 1..nextEvent :
          ({e1, e2} \subseteq Range(sent[c1]) /\ {e1, e2} \subseteq Range(sent[c2]))
              => ((IndexOf(e1, sent[c1]) < IndexOf(e2, sent[c1]))
                    <=> (IndexOf(e1, sent[c2]) < IndexOf(e2, sent[c2])))

\* C10 witness: two subscribers both hold two events while one Publish is in
\* its loop and a concurrent Publish waits for the mutex.
C10_Witness ==
    \E c1, c2 \in DOMAIN sent :
        /\ c1 # c2
        /\ Len(sent[c1]) >= 2 /\ Len(sent[c2]) >= 2
        /\ rcvd[c1] >= 1
        /\ \E p, q \in Publishers : pub[p].pc = "send" /\ pub[q].pc = "lock"

----------------------------------------------------------------------------
(***************************************************************************)
(* Claims about the record stores                                          *)
(***************************************************************************)

\* The records a goroutine can look at: those in the table and those held.
Visible ==
    {table[k][q] : k \in Kinds, q \in Paths} \cup {held[r].rec : r \in Readers}

\* C1 (as claimed): no record obtained from the store while an UpdateMetadata
\* call is in flight holds the metadata written by that call together with
\* the state the field had before the call (Unknown or Loading).
C1_DataAndLoadedInOneStep ==
    \A r \in Readers : \A u \in held[r].during :
        ~(/\ held[r].rec.Meta = u.data
          /\ held[r].rec.MetaState = u.pre
          /\ u.pre \in {"Unknown", "Loading"})

\* C1 (amended): UpdateMetadata makes the new metadata and its error visible
\* together in one atomic step, and the state Loaded follows in a second
\* transaction: every visible record pairs each metadata value with the
\* error of the call that wrote it, a record showing metadata with state
\* Unknown was obtained between the commit of the writing call and its
\* deferred SetMetaState, and once that call has returned the stored record
\* is no longer Unknown.
C1_DataAndErrorInOneStep ==
    /\ \A rec \in Visible :
          rec.ok => IF rec.Meta = 0 THEN rec.MetaErr = "nil"
                    ELSE rec.Meta \in DOMAIN errOf /\ rec.MetaErr = errOf[rec.Meta]
    /\ \A r \in Readers :
          (held[r].has /\ held[r].rec.Meta # 0 /\ held[r].rec.MetaState = "Unknown")
              => \E u \in held[r].during : u.data = held[r].rec.Meta
    /\ \A k \in Kinds, q \in Paths :
          (table[k][q].ok /\ table[k][q].Meta # 0 /\ table[k][q].MetaState = "Unknown")
              => \E u \in PendingMeta(k, q) : u.data = table[k][q].Meta

\* C1 witness: a reader holds a record with the metadata and the error of an
\* UpdateMetadata call whose deferred SetMetaState has not run, still in the
\* state from before the call.
C1_Witness ==
    \E r \in Readers : \E u \in held[r].during :
        /\ held[r].rec.Meta = u.data
        /\ held[r].rec.MetaErr = "err"
        /\ held[r].rec.MetaState = u.pre

\* C8: a record obtained from the store keeps showing the field values it
\* had when it was obtained, whatever Update or SetState calls commit on its
\* path afterwards.
C8_HeldRecordUnchanged ==
    \A r \in Readers : held[r].has => View(held[r].rec, heap) = held[r].view

\* C8 witness: a reader holds a record with diagnostics while the stored
\* record of the same path already shows other diagnostics and another
\* diagnostics state.
C8_Witness ==
    \E r \in Readers :
        /\ held[r].has
        /\ held[r].rec.Diags # 0
        /\ View(table["module"]["a"], heap).Diags # held[r].view.Diags
        /\ View(table["module"]["a"], heap).DiagState # held[r].view.DiagState

----------------------------------------------------------------------------
(***************************************************************************)
(* Claims about the job functions                                          *)
(***************************************************************************)

\* C4 (as claimed): when a job function that set a field's state to Loading
\* has returned, nil or error, the field's state is Loaded.
C4_LoadingEndsLoaded ==
    \A w \in Workers :
        (wk[w].pc = "done" /\ wk[w].setLoading)
            => StateOf(wk[w].kind, wk[w].path, wk[w].src) = "Loaded"

\* C5: when a parse job runs with IgnoreState=false directly after a run of
\* the same job with IgnoreState=false on the same existing record, the
\* second run returns StateNotChangedErr and writes nothing to the record.
C5_SecondRunStateNotChanged ==
    \A w \in Workers :
        (/\ wk[w].pc = "done"
         /\ wk[w].fn \in ParseJobs
         /\ ~wk[w].ign
         /\ prev.fn = wk[w].fn
         /\ prev.path = wk[w].path
         /\ ~prev.ign
         /\ prev.ret # "NotFound")
            => (wk[w].ret = "StateNotChanged" /\ wk[w].wrote = 0)

\* C5 witness: the second of two such runs has returned, the first having
\* set the state to Loading and parsed.
C5_Witness ==
    \E w \in Workers :
        /\ wk[w].pc = "done"
        /\ wk[w].fn \in ParseJobs
        /\ ~wk[w].ign
        /\ prev.fn = wk[w].fn
        /\ prev.path = wk[w].path
        /\ ~prev.ign
        /\ prev.setLoading
        /\ prev.wrote > 1
        /\ wk[w].ret = "StateNotChanged"

----------------------------------------------------------------------------
(***************************************************************************)
(* Claims about decodeDeclaredModuleCalls                                  *)
(***************************************************************************)

\* C6 (as claimed): when a declared local module call failed (Stat, Add or
\* an EnqueueJob of the child), decodeDeclaredModuleCalls returns a non-nil
\* error that contains the error of every failed call.
C6_CombinedErrorReturned ==
    (dec.returned /\ dec.failed # {})
        => (dec.ret # <<>> /\ dec.failed \subseteq Range(dec.ret))

\* C7: when decodeDeclaredModuleCalls has returned, every declared local
\* module call whose directory exists and whose own Add did not fail has its
\* job DAG in the job store (every job whose own EnqueueJob did not fail),
\* whatever happened to the calls visited before or after it.
C7_FailureNeverStopsBatch ==
    (dec.returned /\ dec.pc = "done" /\ dec.i > 0)
        => \A p \in Range(dec.declared) \cap Paths :
              (dec.fs[p] = "dir" /\ <<p, "Add">> \notin dec.failed)
                  => Enqueued(p) = Expected(p)

\* C7 witness: the whole DAG of a call is enqueued although a call visited
\* before it failed.
C7_Witness ==
    /\ dec.returned
    /\ \E x, y \in DOMAIN dec.declared :
          /\ x < y
          /\ dec.declared[x] \in Paths
          /\ dec.declared[y] \in Paths
          /\ \E f \in dec.failed : f[1] = dec.declared[x]
          /\ Enqueued(dec.declared[y]) = Range(JobTypes)

----------------------------------------------------------------------------
(***************************************************************************)
(* Job store / scheduler: claims                                           *)
(***************************************************************************)

\* C11: a job is never moved from Queued to Running while a job listed in its
\* DependsOn is not yet Done.  Dependencies are fixed at enqueue time and Done
\* is final, so this is: every job that has left Queued has only Done
\* dependencies.
C11_RunsOnlyAfterDependencies ==
    \A i \in DOMAIN sjobs :
        sjobs[i].state # "Queued" =>
            \A x \in sjobs[i].dependsOn : sjobs[x].state = "Done"

\* A job with two dependencies is Running.
C11_Witness ==
    \E i \in DOMAIN sjobs :
        sjobs[i].state = "Running" /\ Cardinality(sjobs[i].dependsOn) = 2

\* C12: with concurrent dequeuers every job is moved from Queued to Running
\* once and handed to one worker: a Queued job was handed to nobody, a job that
\* left Queued was returned by exactly one AwaitNextJob call, and no two
\* scheduler goroutines hold the same job.
C12_HandedToExactlyOneWorker ==
    /\ \A i \in DOMAIN sjobs :
           sjobs[i].handed = IF sjobs[i].state = "Queued" THEN 0 ELSE 1
    /\ \A d \in Dequeuers, e \in Dequeuers :
           (d # e /\ dq[d].pc = "running" /\ dq[e].pc = "running")
               => dq[d].job # dq[e].job

\* Both high priority goroutines were handed a job and the third goroutine is
\* inside AwaitNextJob.
C12_Witness ==
    /\ dq["h1"].pc = "running"
    /\ dq["h2"].pc = "running"
    /\ dq["l1"].pc = "read"

\* C13: WaitForJobs(ids...) returns nil only when every listed job is Done
\* (Done is final); any other return is the context's error, after the
\* caller's context was cancelled.
C13_WaitReturnsAfterAllDone ==
    waiter.pc = "returned" =>
        /\ waiter.ret = "nil" => \A i \in waiter.ids : sjobs[i].state = "Done"
        /\ waiter.ret # "nil" => (waiter.ret = "ctxErr" /\ ctxDone)

\* WaitForJobs returned nil for two jobs, one of which ended with an error,
\* without a cancellation.
C13_Witness ==
    /\ waiter.pc = "returned"
    /\ waiter.ret = "nil"
    /\ Cardinality(waiter.ids) = 2
    /\ \E i \in waiter.ids : sjobs[i].jobErr
    /\ ~ctxDone

\* A Queued job one of whose dependencies ended with an error.
FailedDependency(i) ==
    /\ i \in DOMAIN sjobs
    /\ sjobs[i].state = "Queued"
    /\ \E x \in sjobs[i].dependsOn : sjobs[x].jobErr

\* C14: a job whose function returned an error is recorded as Done, and a job
\* that depends on it does not stay Queued: it is dequeued like the dependent
\* of a job that succeeded.
C14_FailedDependencyUnblocks ==
    /\ [](\A i \in DOMAIN sjobs : sjobs[i].jobErr => sjobs[i].state = "Done")
    /\ \A i \in 1..MaxJobs : FailedDependency(i) ~> (i \in DOMAIN sjobs /\ sjobs[i].state # "Queued")

\* A job runs although both its dependencies ended with an error.
C14_Witness ==
    \E i \in DOMAIN sjobs :
        /\ sjobs[i].state = "Running"
        /\ Cardinality(sjobs[i].dependsOn) = 2
        /\ \A x \in sjobs[i].dependsOn : sjobs[x].jobErr

----------------------------------------------------------------------------
(***************************************************************************)
(* Job functions and record stores: further claims                         *)
(***************************************************************************)

\* C15: a job function called with IgnoreState = false on a record whose
\* target state is Loading or Loaded returns StateNotChangedErr at its state
\* check: it has called no Set or Update method and the table is unchanged.
C15_SkipsWithoutTouchingRecord ==
    [][\A w \in Workers :
        (/\ wk[w] = WkIdle
         /\ wk'[w].fn \in JobFns
         /\ ~wk'[w].ign
         /\ table[wk'[w].kind][wk'[w].path].ok
         /\ StateOf(wk'[w].kind, wk'[w].path, wk'[w].src) \in {"Loading", "Loaded"})
        => /\ wk'[w].pc = "done"
           /\ wk'[w].ret = "StateNotChanged"
           /\ ~wk'[w].setLoading
           /\ wk'[w].wrote = 0
           /\ table' = table
           /\ heap' = heap]_vars

\* A job function has returned StateNotChangedErr for a record whose state is
\* Loading: the execution that set it has failed and left it there.
C15_Witness ==
    \E w \in Workers :
        /\ wk[w].pc = "done"
        /\ wk[w].ret = "StateNotChanged"
        /\ wk[w].fn = "TerraformValidate"
        /\ StateOf(wk[w].kind, wk[w].path, wk[w].src) = "Loading"

\* The records of every other store and path are the same after the step.
OthersUnchanged(k, q) ==
    \A k2 \in Kinds, q2 \in Paths :
        <<k2, q2>> # <<k, q>> => table'[k2][q2] = table[k2][q2]

\* C16: Add(path) returns AlreadyExists and leaves the table (the record with
\* its data and states, and every other record) unchanged when the path has a
\* record; otherwise it returns nil and the table has one new record, for that
\* path.
C16_AddFailsOnExisting ==
    [][\A t \in Targets, w \in Workers :
        LET k == t[1]
            q == t[2]
        IN StoreCall(w, "Add", k, q) =>
            IF table[k][q].ok
            THEN /\ called'.err = "AlreadyExists"
                 /\ table' = table
                 /\ heap' = heap
            ELSE /\ called'.err = "nil"
                 /\ table'[k][q].ok
                 /\ OthersUnchanged(k, q)]_vars

\* Add has returned AlreadyExists for a module whose metadata is loaded.
C16_Witness ==
    /\ called = Call("Add", "module", "a", "AlreadyExists")
    /\ table["module"]["a"].MetaState = "Loaded"
    /\ table["module"]["a"].Meta # 0

\* C17: AddIfNotExists(path) returns nil whether or not the path has a
\* record; a record that is there is left as it is; and a second call right
\* after it would change nothing, so repeated calls equal one call.
C17_AddIfNotExistsIdempotent ==
    [][\A t \in Targets, w \in Workers :
        LET k == t[1]
            q == t[2]
        IN StoreCall(w, "AddIfNotExists", k, q) =>
            /\ called'.err = "nil"
            /\ table'[k][q].ok
            /\ OthersUnchanged(k, q)
            /\ table[k][q].ok => (table' = table /\ heap' = heap)
            /\ AddIfNotExistsTxn([tb |-> table', hp |-> heap'], k, q).tb = table']_vars

\* AddIfNotExists has returned nil for a module whose metadata is loaded.
C17_Witness ==
    /\ called = Call("AddIfNotExists", "module", "a", "nil")
    /\ table["module"]["a"].MetaState = "Loaded"
    /\ table["module"]["a"].Meta # 0

\* C18: called for a path without a record, RecordByPath, Set<Field>State
\* and Update<Field> return RecordNotFound and leave the table as it is; the
\* Update call registers nothing that would set the state to Loaded later.
C18_MissingPathNotFound ==
    [][\A t \in Targets, w \in Workers :
        LET k == t[1]
            q == t[2]
        IN ~table[k][q].ok =>
            /\ (StoreCall(w, "RecordByPath", k, q) \/ StoreCall(w, "SetMetaState", k, q))
                  => (called'.err = "NotFound" /\ table' = table)
            /\ (\E e \in {"nil", "err"} : ApiUpdateMetadata(w, k, q, e))
                  => /\ called'.err = "NotFound"
                     /\ table' = table
                     /\ wk'[w].defer = NoDefer
                     /\ CanCall(w)']_vars

\* UpdateMetadata has returned RecordNotFound for a path without a record
\* while another record is in the table.
C18_Witness ==
    /\ called = Call("UpdateMetadata", "module", "a", "NotFound")
    /\ ~table["module"]["a"].ok
    /\ table["module"]["b"].ok

\* C19: Remove(path) returns nil; afterwards the path has no record, so
\* Exists is false and RecordByPath fails with RecordNotFound, and the other
\* records are untouched; on a path without a record it changes nothing.
C19_RemoveDeletes ==
    [][\A t \in Targets, w \in Workers :
        LET k == t[1]
            q == t[2]
        IN StoreCall(w, "Remove", k, q) =>
            /\ called'.err = "nil"
            /\ ~table'[k][q].ok
            /\ TxnOf("RecordByPath", [tb |-> table', hp |-> heap'], k, q).err = "NotFound"
            /\ OthersUnchanged(k, q)
            /\ ~table[k][q].ok => table' = table]_vars

\* Remove has returned nil, the path has no record and another one has.
C19_Witness ==
    /\ called = Call("Remove", "module", "a", "nil")
    /\ ~table["module"]["a"].ok
    /\ table["module"]["b"].MetaState = "Loading"

\* C20: the record Add or AddIfNotExists creates is empty: every state reads
\* Unknown, and no data and no error is set.
C20_NewRecordEmpty ==
    [][\A t \in Targets, w \in Workers :
        LET k == t[1]
            q == t[2]
            v == View(table'[k][q], heap')
        IN (/\ ~table[k][q].ok
            /\ StoreCall(w, "Add", k, q) \/ StoreCall(w, "AddIfNotExists", k, q)) =>
            /\ v.ok
            /\ v.MetaState = "Unknown"
            /\ \A src \in Sources : v.DiagState[src] = "Unknown" /\ v.Diags[src] = 0
            /\ v.Meta = 0 /\ v.MetaErr = "nil"
            /\ v.Files = 0 /\ v.ParsingErr = "nil"]_vars

\* AddIfNotExists has created a module record after data values were handed
\* out, and the record holds none; the stacks store has a new record, too,
\* whose state map is nil.
C20_Witness ==
    /\ called = Call("AddIfNotExists", "module", "a", "nil")
    /\ nextData > 0
    /\ table["module"]["a"].ok
    /\ table["module"]["a"].Meta = 0
    /\ table["module"]["a"].MetaState = "Unknown"
    /\ table["stacks"]["a"].ok
    /\ table["stacks"]["a"].DiagState = 0

----------------------------------------------------------------------------
(***************************************************************************)
(* Job DAGs of the features: claims                                        *)
(***************************************************************************)

\* The job of type b has started.
Started(b) == \E j \in DOMAIN sjobs : sjobs[j].type = b /\ sjobs[j].state # "Queued"

\* The job of type a is Done.
Finished(a) == \E i \in DOMAIN sjobs : sjobs[i].type = a /\ sjobs[i].state = "Done"

\* C21: in the jobs of one DidOpen of the modules feature the phases run in
\* order: parsing is Done before the metadata job starts, the metadata job is
\* Done before the reference-decode jobs start, and both reference-decode
\* jobs are Done before a validation job starts.
C21_PhasesInOrder ==
    /\ Started("LoadModuleMetadata") => Finished("ParseModuleConfiguration")
    /\ \A r \in {"DecodeReferenceTargets", "DecodeReferenceOrigins"} :
          /\ Started(r) => Finished("LoadModuleMetadata")
          /\ \A v \in {"SchemaModuleValidation", "ReferenceValidation"} :
                Started(v) => Finished(r)

\* C28: in the jobs of one document change of the variables feature,
\* SchemaVariablesValidation does not start before ParseVariables is Done.
C28_ValidationAfterParse ==
    Started("SchemaVariablesValidation") => Finished("ParseVariables")

\* C22: the event-consumption goroutine of a feature never waits, while it
\* handles an event, for a job or for the data of another feature.
C22_HandlerNeverWaits == vloop.pc # "waitMetadata"

\* The execution has passed the state check and has not returned.
InFlight(e, fn) == ex[e].fn = fn /\ ex[e].pc \notin {"idle", "done"}

\* C23: of two executions of one job function for one path with
\* IgnoreState=false, at most one is past the state check at any time.
C23_AtMostOnePassesCheck ==
    \A e1, e2 \in Execs :
        /\ InFlight(e1, "ParseModuleManifest") /\ ~ex[e1].ign
        /\ InFlight(e2, "ParseModuleManifest") /\ ~ex[e2].ign
        => e1 = e2

\* C24: while the field's state is Loaded, no execution that set it to
\* Loading is still to write its result.
C24_LoadedMeansNothingInFlight ==
    root.ModManifestState = "Loaded" =>
        \A e \in Execs : ~(ex[e].fn = "ParseModuleManifest" /\ ex[e].pc \in {"work", "update"})

\* C25: when ObtainSchema has passed its state check and returned on
\* success, on a CLI failure or because all schemas exist, ProviderSchemaState
\* is Loaded.
C25_SchemaStateLoadedAfterRun ==
    \A e \in Execs :
        ex[e].pc = "done" /\ ex[e].fn = "ObtainSchema" /\ ex[e].via \in {"ok", "cliErr", "exist"}
        => psch.ProviderSchemaState = "Loaded"

\* C26: what a reader reads through a record it got from RecordByPath is
\* what it read when it got the record, whatever SchemaVariablesValidation
\* has done since.
C26_HeldDiagnosticsUnchanged ==
    vheld.has => VarsDiagsOf(vheld.diags) = vheld.seen

\* The execution parsed one file only and has returned nil.
IncrementalDone(e) == pj[e].pc = "done" /\ pj[e].ret = "nil" /\ pj[e].incr

\* C27: when two single-file parses for different files of a directory have
\* both returned, the stored files and parsing diagnostics hold what each of
\* them parsed.
C27_BothResultsStored ==
    \A e1, e2 \in Execs :
        IncrementalDone(e1) /\ IncrementalDone(e2) /\ pj[e1].file # pj[e2].file
        => /\ pmod.files[pj[e1].file] = pj[e1].files[pj[e1].file]
           /\ pmod.diags[pj[e1].file] = pj[e1].diags[pj[e1].file]

\* C29: a child whose Add returned AlreadyExists gets its jobs with
\* IgnoreState=false whatever the caller passed; a child whose record was
\* newly added gets them with the caller's ignoreState.  Every job of the
\* child carries the value fixed at its Add.
C29_ExistingChildNotForced ==
    [][/\ \A addFail \in BOOLEAN :
            (DecodeAdd(addFail) /\ dec'.pc = "enqueue")
            => dec'.mcIgnoreState =
                 IF table["module"][dec.declared[dec.i]].ok THEN FALSE ELSE dec.ignoreState
       /\ \A fail \in BOOLEAN :
            DecodeEnqueue(fail)
            => /\ ~fail => /\ queue'[Len(queue')].ign = dec.mcIgnoreState
                           /\ queue'[Len(queue')].dir = dec.declared[dec.i]
               /\ dec'.pc = "enqueue" => dec'.mcIgnoreState = dec.mcIgnoreState]_vars

\* C29 witness: the caller passed ignoreState=true; the jobs of a child that
\* was already there are enqueued with false, those of a new child with true.
C29_Witness ==
    /\ dec.ignoreState
    /\ dec.returned
    /\ \E x, y \in DOMAIN queue : ~queue[x].ign /\ queue[y].ign

\* The goroutine is inside Publish.
InPublish(g) == tp[g].pc \in {"lock", "send"}

C31_UnsubscribeNeverWaits ==
    \A p \in Publishers :
        (Sending(p) /\ ChanFull(Target(p))) =>
            \A ch \in Range(subscribers) : ENABLED Unsubscribe(ch)

\* C37 (as claimed): Unsubscribe never panics, whatever the channel and the
\* subscriber list; it removes the channel when it is registered, and keeps
\* the other subscribers in their order.
C37_UnsubscribeSafe ==
    [][\A ch \in DOMAIN sent :
          Unsubscribe(ch) =>
              /\ ~busPanic'
              /\ Range(subscribers') = Range(subscribers) \ {ch}
              /\ \A i, j \in DOMAIN subscribers' :
                    i < j => IndexOf(subscribers'[i], subscribers)
                                < IndexOf(subscribers'[j], subscribers)]_vars

\* The fields of a record other than those in F, as a holder reads them.
SameExcept(a, b, F) ==
    \A fld \in {"Meta", "MetaErr", "MetaState", "Files", "ParsingErr", "Diags"} \ F :
        b[fld] = a[fld]

\* C33 (as claimed): Set...DiagnosticsState changes only the state of its
\* source and Update...Files only the parsed files and the parsing error;
\* every other field of the record is as it was before the call.
C33_OnlyNamedFieldChanges ==
    [][\A w \in Workers :
          LET j == wk[w]
              a == View(table[j.kind][j.path], heap)
              b == View(table'[j.kind][j.path], heap')
          IN  /\ JobSetLoading(w) =>
                    /\ SameExcept(a, b, {})
                    /\ \A src \in Sources \ {j.src} : b.DiagState[src] = a.DiagState[src]
              /\ JobUpdateFiles(w) =>
                    /\ SameExcept(a, b, {"Files", "ParsingErr"})
                    /\ b.DiagState = a.DiagState]_vars

\* C38 (as claimed): every id in the DependsOn of an enqueued job is the id
\* of a job that was enqueued before it, never the empty id.
C38_DependsOnEnqueuedJobs ==
    \A x \in DOMAIN queue :
        \A d \in queue[x].dependsOn : \E y \in 1..(x - 1) : queue[y].id = d

\* C36 (as claimed): when an EnqueueJob call of didOpen failed, didOpen
\* returns a non-nil error.
C36_EnqueueErrorReturned ==
    (rdo.pc = "done" /\ rdo.failed # {}) => rdo.ret # "nil"

\* C39 (as claimed): when the executor could not be created,
\* GetTerraformVersion returns the store error if recording the failure
\* failed and the executor error otherwise, never nil.
C39_ExecutorErrorReturned ==
    (gv.pc = "done" /\ gv.err = "ExecErr") =>
        gv.ret = IF gv.sErr # "nil" THEN gv.sErr ELSE gv.err

\* C34 (as claimed): the handler never reads through a missing handle, so
\* handling a watched-file event never ends the process; with the skip
\* outcome it returns.
C34_SkipNeverCrashes ==
    /\ ~watch.crashed
    /\ (watch.pc = "use") => watch.ph # "nil"

\* C35: the level argument never exceeds MaxModuleNesting + 1 and at most
\* MaxModuleNesting + 2 invocations are nested, a call chain that goes
\* deeper than MaxModuleNesting ends with the nesting error, and every call
\* of ProviderRequirementsForModule returns, cyclic module calls included.
C35_RecursionBounded ==
    /\ [](/\ Len(pr.stack) <= MaxModuleNesting + 2
          /\ \A i \in DOMAIN pr.stack : pr.stack[i].level <= MaxModuleNesting + 1
          /\ (pr.pc = "done" /\ pr.deep) => pr.res.err = "TooDeep")
    /\ (pr.pc = "run") ~> (pr.pc = "done")

\* C35 witness: a call on a module that calls itself has returned the
\* nesting error.
C35_Witness ==
    /\ pr.pc = "done"
    /\ pr.res.err = "TooDeep"
    /\ pr.deep
    /\ pr.top \in meta[pr.top].calls

\* C40 (as claimed): after a successful call the result holds, for every
\* provider, the constraint the module declares itself and the constraints
\* its local child modules declare.
C40_OwnAndChildConstraints ==
    (pr.pc = "done" /\ pr.res.err = "nil") =>
        \A m \in {pr.top} \cup (meta[pr.top].calls \cap Paths) :
            \A p \in meta[m].reqs :
                p \in DOMAIN pr.res.reqs /\ <<m, p>> \in Range(pr.res.reqs[p])

====
